---- MODULE Spec2Model ----
(***************************************************************************)
(* Alert pipeline of scripts/lib/alerts: the AlertDeduplicator, the        *)
(* BehavioralAnalyzer and the SecurityAlertEngine of alert-engine.py and   *)
(* the NotificationDispatcher of notification-dispatcher.py.               *)
(*                                                                         *)
(* Time is counted in whole minutes (a datetime is an integer, a timedelta *)
(* a difference of integers).  A Python str is a sequence of fragments, so *)
(* that "|".join is a real concatenation.  A Python list that the code     *)
(* only appends to, filters and measures is a bag.                         *)
(***************************************************************************)
EXTENDS Integers, Sequences, FiniteSets, Bags, TLC

VARIABLES
  enabled,        \* AlertDeduplicator.enabled
  alert_history,  \* AlertDeduplicator.alert_history: dedup key -> deque of datetimes
  dd_last,        \* the last should_alert call: its alert, its dedup key and the answer
  dd_accepted,    \* history variable: every alert should_alert answered True for, in call order
  dd_calls,       \* number of should_alert calls made so far
  session_stats,  \* BehavioralAnalyzer.session_stats: session id -> operations,
                  \* scope_violations, start_time
  an_last,        \* the last analyze_session call: its session, timestamp, scope flag and
                  \* returned alerts
  an_seen,        \* history variable: per session, the timestamps of all records analysed
  an_outside,     \* history variable: per session, how many out-of-scope records were analysed
  an_calls,       \* number of analyze_session calls made so far
  handlers,       \* NotificationDispatcher.handlers: the configured handlers, in order
  nd_pc,          \* where send_alert is: "idle", "loop" (the for loop), "done" (returned) or
                  \* "hung" (inside a send that does not return)
  nd_alert,       \* the alert being sent
  nd_index,       \* the position in handlers the for loop has come to
  success_count,  \* send_alert's success_count
  nd_invoked,     \* history variable: per handler, how often this send_alert called its send
  nd_returned,    \* history variable: per handler called, "true", "false" or "raise"
  nd_result,      \* what send_alert returned
  nd_escaped,     \* whether an exception left send_alert
  wh_last,        \* the last WebhookNotifier.send: requests made, their responses, the waits
                  \* between them, seconds slept in all, result
  max_errors,     \* config['reliability']['max_consecutive_errors']: the error ceiling
  last_check_time, \* SecurityAlertEngine.last_check_time: the time cursor
  error_count,    \* SecurityAlertEngine.error_count: consecutive failed cycles
  alert_count,    \* SecurityAlertEngine.alert_count
  wallclock,      \* what datetime.now() reads
  eng_pc,         \* where run_once is: "idle", "evaluate" (the loop of process_logs), "alerts"
                  \* (the loop of run_once), "sending" (inside send_alert), "returned" or "raised"
  logs,           \* process_logs: the list query_range returned
  log_index,      \* process_logs: the position in logs the for loop has come to
  end_time,       \* process_logs: the end of the queried window
  alerts,         \* the alerts list of process_logs, then of run_once
  alert_index,    \* run_once: the position in alerts the for loop has come to
  sent_alerts,    \* run_once: sent_alerts
  eng_status,     \* what the last run_once returned
  eng_cycles,     \* number of run_once calls made so far
  eng_before,     \* history variable: the engine's state when this cycle began
  eng_ready,      \* history variable: what the log source's health_check answered in this cycle
  eng_query,      \* history variable: how this cycle's query ended, "none" when none was made
  eng_evaluated,  \* history variable: per record evaluated in this cycle, the alerts it gave,
                  \* and whether it raised
  eng_deduped,    \* history variable: the should_alert calls of this cycle, alert and answer
  eng_handed,     \* history variable: the alerts handed to the dispatcher in this cycle
  rl_config,      \* config['rules'] of the engine being constructed, in the order of the YAML file
  rl_pc,          \* where the rule engine is: "new", "loaded" (self.rules is set) or "raised"
  rl_rules,       \* SecurityAlertEngine.rules
  rl_record,      \* the last record the pattern rules were evaluated on
  rl_alerts,      \* the alerts the pattern rules gave for it
  lf_handler,     \* the LogFileNotifier: enabled, and rotation_config's max_size_mb and keep_files
  lf_files,       \* the log directory: 0 is log_path, i is the backup log_path.i
  lf_sends,       \* number of LogFileNotifier.send calls made so far
  lf_before,      \* history variable: the log directory when the last send was called
  lf_last,        \* history variable: the last send's line, the renames it made, what it returned
  ids_seen,       \* history variable: of every alert made so far, by the pattern rules or by the
                  \* analyzer: rule name, session id, record timestamp and alert_id
  cs_handler,     \* the ConsoleNotifier: enabled, min_severity and format
  cs_last,        \* history variable: the last ConsoleNotifier.send: its alert, whether it was
                  \* printed, what the send returned
  rc_pc,          \* where run_continuous is: "off" (not called), "running" (in its while loop),
                  \* "run_once" (in the run_once it called, or back from it and not yet asleep),
                  \* "stopped" (in its except KeyboardInterrupt clause) or "raised" (in its
                  \* except Exception clause, which raises again)
  poll_interval,  \* run_continuous: poll_interval
  rc_start_time,  \* run_continuous: start_time, read off the clock before run_once is called
  rc_result,      \* run_continuous: result, what the last run_once returned
  rc_sleep_time,  \* run_continuous: sleep_time, the time the last time.sleep was called with
  rc_results,     \* history variable: the results the cycles slept after have returned
  eng_delivered,  \* history variable: the alerts send_alert returned True for, in every
                  \* cycle so far
  eng_held,       \* history variable: the number of records the log source held for the
                  \* window of this cycle's query
  eng_windows,    \* history variable: per query made so far, the start and end it was made
                  \* with, and whether its cycle has moved the cursor
  eng_store       \* history variable: the records the log source holds from the cursor on,
                  \* as the last answered query returned them, each with the number of
                  \* times analyze_session has tracked it

dd_vars == <<enabled, alert_history, dd_last, dd_accepted, dd_calls>>

an_vars == <<session_stats, an_last, an_seen, an_outside, an_calls>>

nd_vars == <<handlers, nd_pc, nd_alert, nd_index, success_count, nd_invoked,
             nd_returned, nd_result, nd_escaped, wh_last>>

eng_vars == <<max_errors, last_check_time, error_count, alert_count, wallclock,
              eng_pc, logs, log_index, end_time, alerts, alert_index, sent_alerts, eng_status,
              eng_cycles, eng_before, eng_ready, eng_query, eng_evaluated,
              eng_deduped, eng_handed>>

rl_vars == <<rl_config, rl_pc, rl_rules, rl_record, rl_alerts>>

lf_vars == <<lf_handler, lf_files, lf_sends, lf_before, lf_last>>

rc_vars == <<rc_pc, poll_interval, rc_start_time, rc_result, rc_sleep_time, rc_results>>

id_vars == <<ids_seen>>

cs_vars == <<cs_handler, cs_last>>

dl_vars == <<eng_delivered, eng_held, eng_windows, eng_store>>

vars == <<dd_vars, an_vars, nd_vars, eng_vars, rl_vars, lf_vars, rc_vars, id_vars,
          cs_vars, dl_vars>>

(***************************************************************************)
(* Bounds of the model.                                                    *)
(***************************************************************************)
MaxDedupCalls == 6

MaxFreqCalls == 21

MaxScopeCalls == 6

(***************************************************************************)
(* AlertDeduplicator                                                       *)
(***************************************************************************)
window_minutes == 5

max_occurrences == 3

key_fields == <<"rule_name", "session_id">>

\* the values the alerts offered to should_alert are drawn from
DedupRules == { <<"r">> }

DedupSessions == { <<"s">>, <<"t">> }

DedupTimes == {0, 5, 6}

DedupAlerts ==
  [rule_name : DedupRules, session_id : DedupSessions, timestamp : DedupTimes,
   context : {<<>>}]

RECURSIVE Join(_, _)
\* sep.join(values)
Join(values, sep) ==
  IF values = <<>> THEN <<>>
  ELSE IF Len(values) = 1 THEN values[1]
  ELSE values[1] \o sep \o Join(Tail(values), sep)

RECURSIVE KeyValues(_, _)
\* the key_values list: for each field, the alert's attribute, else the
\* context entry, else nothing
KeyValues(alert, fields) ==
  IF fields = <<>> THEN <<>>
  ELSE LET field == Head(fields)
           rest == KeyValues(alert, Tail(fields))
       IN IF field \in DOMAIN alert THEN <<alert[field]>> \o rest
          ELSE IF field \in DOMAIN alert.context THEN <<alert.context[field]>> \o rest
          ELSE rest

\* dd_last before the first call (dd_calls = 0): no alert yet
NoAlert == [rule_name |-> <<>>, session_id |-> <<>>, timestamp |-> 0, context |-> <<>>]

dedup_key(alert) == Join(KeyValues(alert, key_fields), <<"|">>)

DedupKeys == { dedup_key(a) : a \in DedupAlerts }

RECURSIVE PopOld(_, _)
\* while history and history[0] < cutoff_time: history.popleft()
PopOld(history, cutoff_time) ==
  IF history # <<>> /\ Head(history) < cutoff_time
  THEN PopOld(Tail(history), cutoff_time)
  ELSE history

\* the mutated should_alert of a deduplicator that ignores its enabled flag
should_alert_always_dedups(alert) ==
  LET key == dedup_key(alert)
      now == alert.timestamp
      history == PopOld(alert_history[key], now - window_minutes)
      answer == ~(Len(history) >= max_occurrences)
  IN /\ alert_history' =
          [alert_history EXCEPT ![key] = IF answer THEN Append(history, now) ELSE history]
     /\ dd_last' = [alert |-> alert, key |-> key, answer |-> answer]
     /\ dd_accepted' = IF answer THEN Append(dd_accepted, alert) ELSE dd_accepted

\* the mutated should_alert of a deduplicator that records suppressed alerts too
should_alert_records_suppressed(alert) ==
  IF ~enabled
  THEN /\ dd_last' = [alert |-> alert, key |-> dedup_key(alert), answer |-> TRUE]
       /\ dd_accepted' = Append(dd_accepted, alert)
       /\ UNCHANGED alert_history
  ELSE LET key == dedup_key(alert)
           now == alert.timestamp
           history == PopOld(alert_history[key], now - window_minutes)
           answer == ~(Len(history) >= max_occurrences)
       IN /\ alert_history' = [alert_history EXCEPT ![key] = Append(history, now)]
          /\ dd_last' = [alert |-> alert, key |-> key, answer |-> answer]
          /\ dd_accepted' = IF answer THEN Append(dd_accepted, alert) ELSE dd_accepted

\* AlertDeduplicator.should_alert(alert); the answer is dd_last'.answer
should_alert(alert) ==
  IF ~enabled
  THEN /\ dd_last' = [alert |-> alert, key |-> dedup_key(alert), answer |-> TRUE]
       /\ dd_accepted' = Append(dd_accepted, alert)
       /\ UNCHANGED alert_history
  ELSE LET key == dedup_key(alert)
           now == alert.timestamp
           cutoff_time == now - window_minutes
           history == PopOld(alert_history[key], cutoff_time)
       IN IF Len(history) >= max_occurrences
          THEN /\ alert_history' = [alert_history EXCEPT ![key] = history]
               /\ dd_last' = [alert |-> alert, key |-> key, answer |-> FALSE]
               /\ UNCHANGED dd_accepted
          ELSE /\ alert_history' = [alert_history EXCEPT ![key] = Append(history, now)]
               /\ dd_last' = [alert |-> alert, key |-> key, answer |-> TRUE]
               /\ dd_accepted' = Append(dd_accepted, alert)

\* AlertDeduplicator.__init__: the history is a defaultdict(deque), so every
\* key reads as an empty deque until something is appended
DedupInitFor(flags, keys) ==
  /\ enabled \in flags
  /\ alert_history = [k \in keys |-> <<>>]
  /\ dd_last = [alert |-> NoAlert, key |-> <<>>, answer |-> FALSE]
  /\ dd_accepted = <<>>
  /\ dd_calls = 0

DedupInit(flags) == DedupInitFor(flags, DedupKeys)

\* one call of should_alert, with any of the alerts
ShouldAlertOf(offered) ==
  /\ dd_calls < MaxDedupCalls
  /\ dd_calls' = dd_calls + 1
  /\ UNCHANGED enabled
  /\ \E alert \in offered : should_alert(alert)

\* one call of should_alert, with any alert
ShouldAlert == ShouldAlertOf(DedupAlerts)

\* alerts whose rule name or session id holds the separator: a rule named
\* "r|s" in the configuration, a session id "s|s" in a log record
SeparatorAlerts ==
  [rule_name : { <<"r">>, <<"r", "|", "s">> },
   session_id : { <<"s">>, <<"s", "|", "s">> },
   timestamp : {0}, context : {<<>>}]

SeparatorKeys == { dedup_key(a) : a \in SeparatorAlerts }

(***************************************************************************)
(* Claims about the AlertDeduplicator                                      *)
(***************************************************************************)
\* number of accepted alerts of key k among the first n accepted ones whose
\* timestamp lies in [lo, hi]
AcceptedIn(k, n, lo, hi) ==
  Cardinality({ i \in 1..n : /\ dedup_key(dd_accepted[i]) = k
                             /\ lo <= dd_accepted[i].timestamp
                             /\ dd_accepted[i].timestamp <= hi })

\* s is what is left of deque h after popping some entries from its left
IsRest(s, h) == \E n \in 0..Len(h) : s = SubSeq(h, n + 1, Len(h))

\* C1: with deduplication enabled, whatever the order of the timestamps, every
\* interval of window_minutes length holds at most max_occurrences accepted
\* alerts of any one dedup key.
C1_AtMostMaxPerWindow ==
  enabled =>
    \A k \in DedupKeys : \A a \in DedupTimes :
      AcceptedIn(k, Len(dd_accepted), a, a + window_minutes) <= max_occurrences

\* C2: with deduplication enabled, should_alert answers True exactly when fewer
\* than max_occurrences previously accepted alerts of the same key have a
\* timestamp no older than the alert's timestamp minus window_minutes.
C2_AnswerIffBudgetLeft ==
  (enabled /\ dd_calls > 0) =>
    LET previous == IF dd_last.answer THEN Len(dd_accepted) - 1 ELSE Len(dd_accepted)
        recent == Cardinality({ i \in 1..previous :
                     /\ dedup_key(dd_accepted[i]) = dd_last.key
                     /\ dd_accepted[i].timestamp >=
                          dd_last.alert.timestamp - window_minutes })
    IN dd_last.answer <=> (recent < max_occurrences)

\* C3: with deduplication disabled, every should_alert call answers True and
\* leaves the whole dedup history as it was.
C3_DisabledAlwaysTrue ==
  [][ (~enabled /\ dd_calls' # dd_calls) =>
        (dd_last'.answer /\ alert_history' = alert_history) ]_vars

\* C3 witness: a disabled deduplicator has accepted more than max_occurrences
\* alerts of one key carrying the same timestamp.
C3_Witness ==
  /\ ~enabled
  /\ dd_calls > 0
  /\ AcceptedIn(dd_last.key, Len(dd_accepted), dd_last.alert.timestamp,
                dd_last.alert.timestamp) > max_occurrences

\* what C4 says of one should_alert call: on True the key's history becomes
\* what was left of it plus the alert's timestamp, on False nothing is added,
\* and no other key's history gains anything
RecordsExactlyOnTrue ==
  LET last == dd_last'
      kept == IF last.answer
              THEN SubSeq(alert_history'[last.key], 1, Len(alert_history'[last.key]) - 1)
              ELSE alert_history'[last.key]
  IN /\ last.answer =>
          /\ alert_history'[last.key] # <<>>
          /\ alert_history'[last.key][Len(alert_history'[last.key])] = last.alert.timestamp
     /\ IsRest(kept, alert_history[last.key])
     /\ \A k \in DedupKeys \ {last.key} : alert_history'[k] = alert_history[k]

\* C4 as stated: should_alert records the alert's timestamp under its key
\* exactly when it answers True (one timestamp appended on True, none added to
\* any key on False).
C4_RecordsExactlyOnTrue ==
  [][ (dd_calls' # dd_calls) => RecordsExactlyOnTrue ]_vars

\* C4 amended: with deduplication enabled, should_alert records the alert's
\* timestamp under its key exactly when it answers True.
C4_EnabledRecordsExactlyOnTrue ==
  [][ (enabled /\ dd_calls' # dd_calls) => RecordsExactlyOnTrue ]_vars

\* C4 witness: an enabled deduplicator has just suppressed an alert after
\* accepting max_occurrences of the same key.
C4_Witness ==
  /\ enabled
  /\ dd_calls > 0
  /\ ~dd_last.answer
  /\ AcceptedIn(dd_last.key, Len(dd_accepted), 0, 6) >= max_occurrences

\* the tuple of configured key-field values of an alert
KeyTuple(alert) == KeyValues(alert, key_fields)

\* no two accepted alerts with different tuples of key-field values have the
\* same dedup key
NoSharedKey ==
  \A i, j \in 1..Len(dd_accepted) :
    KeyTuple(dd_accepted[i]) # KeyTuple(dd_accepted[j]) =>
      dedup_key(dd_accepted[i]) # dedup_key(dd_accepted[j])

\* a should_alert call leaves the history of every key but its own as it was
OtherKeysUnchanged ==
  \A k \in DOMAIN alert_history :
    k # dd_last'.key => alert_history'[k] = alert_history[k]

\* C35: two alerts whose tuples of configured key-field values differ are
\* never accounted under the same dedup key, so an alert accepted for one
\* (rule_name, session_id) pair never consumes the budget of another pair;
\* and should_alert for one key leaves every other key's history unchanged.
C35_DifferentTuplesDifferentKeys ==
  []NoSharedKey /\ [][OtherKeysUnchanged]_dd_vars

\* C34: for every dedup key, after any sequence of should_alert calls the
\* recorded history never holds more than max_occurrences timestamps.
C34_HistoryAtMostMaxOccurrences ==
  \A k \in DOMAIN alert_history : Len(alert_history[k]) <= max_occurrences

\* C34 witness: the history of a key is full and the last call, for that key,
\* was answered False
C34_Witness ==
  /\ enabled
  /\ dd_calls > max_occurrences
  /\ ~dd_last.answer
  /\ Len(alert_history[dd_last.key]) = max_occurrences

\* C28: the history of every dedup key is at all times ordered in time, no
\* timestamp coming before an earlier one from front to back; and after a
\* should_alert call of an enabled deduplicator the history of the call's
\* key holds no timestamp older than the alert's minus window_minutes.
C28_HistoryTimeOrderedAndPruned ==
  /\ \A k \in DOMAIN alert_history :
       \A i, j \in DOMAIN alert_history[k] :
         i < j => alert_history[k][i] <= alert_history[k][j]
  /\ (enabled /\ dd_calls > 0) =>
       \A i \in DOMAIN alert_history[dd_last.key] :
         alert_history[dd_last.key][i] >= dd_last.alert.timestamp - window_minutes

(***************************************************************************)
(* BehavioralAnalyzer                                                      *)
(***************************************************************************)
KeepMinutes == 60

HighFreqMinutes == 5

HighFreqLimit == 20

ViolationLimit == 3

HIGH_FREQUENCY == <<"high_frequency_operations">>

REPEATED_SCOPE == <<"repeated_scope_violations">>

\* log_entry.get('timestamp', ''): absent or empty, an ISO string, or a
\* string datetime.fromisoformat rejects
NoTimestamp == <<>>

BadTimestamp == <<"not-a-date">>

Iso(t) == <<"iso", t>>

\* the timestamp analyze_session works with; clock is datetime.now()
ParseTimestamp(timestamp_str, clock) ==
  IF Len(timestamp_str) = 0 THEN clock
  ELSE IF Len(timestamp_str) = 2 THEN timestamp_str[2]
  ELSE clock

\* [ts for ts in operations if ts > cutoff]
After(operations, cutoff) ==
  [ts \in { x \in DOMAIN operations : x > cutoff } |-> operations[ts]]

\* the default of the session_stats defaultdict; start_time None is <<>>
NewStats == [operations |-> EmptyBag, scope_violations |-> 0, start_time |-> <<>>]

\* hashlib.md5(content.encode()).hexdigest()[:12]: one digest per content
md5_12(content) == <<"md5", content>>

\* BehavioralAnalyzer._generate_alert_id: the digest of
\* f"{rule_type}_{session_id}_{int(time.time())}", the time being the wall
\* clock's when the alert is made
analyzer_generate_alert_id(rule_type, session_id, clock) ==
  md5_12(<<rule_type, "_">> \o session_id \o <<"_", ToString(clock)>>)

HighFrequencyAlert(session_id, timestamp, recent_ops, log_entry, clock) ==
  [alert_id |-> analyzer_generate_alert_id("high_frequency", session_id, clock),
   rule_name |-> HIGH_FREQUENCY, severity |-> "MEDIUM",
   description |-> "Unusually high frequency of operations detected",
   category |-> "behavioral_anomaly", timestamp |-> timestamp,
   session_id |-> session_id,
   context |-> [operation_count |-> BagCardinality(recent_ops),
                time_window |-> "5 minutes",
                operations_per_minute |-> <<BagCardinality(recent_ops), 5>>],
   raw_log |-> log_entry]

RepeatedScopeAlert(session_id, timestamp, violations, start_time, log_entry, clock) ==
  [alert_id |-> analyzer_generate_alert_id("repeated_scope", session_id, clock),
   rule_name |-> REPEATED_SCOPE, severity |-> "HIGH",
   description |-> "Multiple scope violations in session",
   category |-> "behavioral_anomaly", timestamp |-> timestamp,
   session_id |-> session_id,
   context |-> [violation_count |-> violations,
                session_duration |-> timestamp - start_time],
   raw_log |-> log_entry]

\* the mutated counter of an analyzer that starts over on an in-scope record
CountViolations_resets(scope_violations, outside) ==
  IF outside THEN scope_violations + 1 ELSE 0

\* if outside_project_scope: stats['scope_violations'] += 1
CountViolations(scope_violations, outside) ==
  IF outside THEN scope_violations + 1 ELSE scope_violations

\* the mutated test of an analyzer that waits for one violation more
Repeated_one_late(scope_violations) == scope_violations > ViolationLimit

\* if stats['scope_violations'] >= 3
Repeated(scope_violations) == scope_violations >= ViolationLimit

\* BehavioralAnalyzer.analyze_session(session_id, log_entry); the returned
\* list is an_last'.alerts
analyze_session(session_id, log_entry, clock) ==
  LET stats == session_stats[session_id]
      timestamp == ParseTimestamp(log_entry.timestamp, clock)
      start_time == IF stats.start_time = <<>> THEN <<timestamp>> ELSE stats.start_time
      appended == stats.operations (+) SetToBag({timestamp})
      operations == After(appended, timestamp - KeepMinutes)
      recent_ops == After(operations, timestamp - HighFreqMinutes)
      outside == log_entry.outside_project_scope
      violations == CountViolations(stats.scope_violations, outside)
      frequency == IF BagCardinality(recent_ops) > HighFreqLimit
                   THEN <<HighFrequencyAlert(session_id, timestamp, recent_ops, log_entry, clock)>>
                   ELSE <<>>
      scope == IF outside /\ Repeated(violations)
               THEN <<RepeatedScopeAlert(session_id, timestamp, violations,
                                         start_time[1], log_entry, clock)>>
               ELSE <<>>
  IN /\ session_stats' = [session_stats EXCEPT ![session_id] =
                            [operations |-> operations,
                             scope_violations |-> violations,
                             start_time |-> start_time]]
     /\ an_last' = [session_id |-> session_id, timestamp |-> timestamp,
                    outside |-> outside, alerts |-> frequency \o scope]
     /\ an_seen' = [an_seen EXCEPT ![session_id] = @ (+) SetToBag({timestamp})]
     /\ an_outside' = [an_outside EXCEPT ![session_id] = IF outside THEN @ + 1 ELSE @]

\* the sessions and timestamps of the records offered to analyze_session
Sessions == { <<"s">>, <<"t">> }

FreqSessions == { <<"s">> }

FreqTimes == {0, 10, 65}

ScopeTimes == {0, 5}

LogEntries(times, flags) ==
  [timestamp : {NoTimestamp, BadTimestamp} \cup { Iso(t) : t \in times },
   outside_project_scope : flags]

\* BehavioralAnalyzer.__init__
AnalyzerInitFor(sessions) ==
  /\ session_stats = [s \in sessions |-> NewStats]
  /\ an_last = [session_id |-> <<>>, timestamp |-> 0, outside |-> FALSE, alerts |-> <<>>]
  /\ an_seen = [s \in sessions |-> EmptyBag]
  /\ an_outside = [s \in sessions |-> 0]
  /\ an_calls = 0

AnalyzerInit == AnalyzerInitFor(Sessions)

\* one call of analyze_session, for a record of one of the sessions
Analyze(sessions, times, flags, limit) ==
  /\ an_calls < limit
  /\ an_calls' = an_calls + 1
  /\ \E session_id \in sessions, log_entry \in LogEntries(times, flags), clock \in times :
       analyze_session(session_id, log_entry, clock)

(***************************************************************************)
(* Claims about the BehavioralAnalyzer                                     *)
(***************************************************************************)
\* the alerts of rule rule_name that the last analyze_session call returned
Emitted(rule_name) ==
  { i \in 1..Len(an_last.alerts) : an_last.alerts[i].rule_name = rule_name }

\* number of records of the last call's session, the last one included, whose
\* timestamp lies in the 5 minutes up to the last record's timestamp
InLastMinutes ==
  BagCardinality(
    [ts \in { x \in DOMAIN an_seen[an_last.session_id] :
                /\ x > an_last.timestamp - 5
                /\ x <= an_last.timestamp }
       |-> an_seen[an_last.session_id][ts]])

\* C5: analyze_session emits a MEDIUM high_frequency_operations alert exactly
\* when, counting the current record, the session has more than 20 operations
\* within the 5 minutes up to the record's timestamp, and then exactly one.
C5_HighFrequencyIffOver20 ==
  an_calls > 0 =>
    /\ Cardinality(Emitted(HIGH_FREQUENCY)) =
         (IF InLastMinutes > 20 THEN 1 ELSE 0)
    /\ \A i \in Emitted(HIGH_FREQUENCY) : an_last.alerts[i].severity = "MEDIUM"

\* C6: on an out-of-scope record, the HIGH repeated_scope_violations alert is
\* emitted (once) when the record is the session's 3rd or a later out-of-scope
\* record, and not when it is the 1st or 2nd.
C6_RepeatedFromThirdViolation ==
  (an_calls > 0 /\ an_last.outside) =>
    /\ Cardinality(Emitted(REPEATED_SCOPE)) =
         (IF an_outside[an_last.session_id] >= 3 THEN 1 ELSE 0)
    /\ \A i \in Emitted(REPEATED_SCOPE) : an_last.alerts[i].severity = "HIGH"

\* C6 witness: a session's 4th out-of-scope record has just been analysed
\* while the other session has one violation of its own.
C6_Witness ==
  /\ an_calls > 0
  /\ an_last.outside
  /\ an_outside[an_last.session_id] = 4
  /\ \E s \in Sessions \ {an_last.session_id} : an_outside[s] = 1

\* no session's scope-violation counter goes down in a step
CounterNeverDecreases ==
  \A s \in Sessions :
    session_stats'[s].scope_violations >= session_stats[s].scope_violations

\* C7 as stated: the counter never decreases, and once it has reached 3 every
\* analyze_session call for that session emits the repeated_scope_violations
\* alert.
C7_EveryCallAfterThird ==
  [][ /\ CounterNeverDecreases
      /\ (/\ an_calls' # an_calls
          /\ session_stats'[an_last'.session_id].scope_violations >= 3)
         => \E i \in 1..Len(an_last'.alerts) :
              /\ an_last'.alerts[i].rule_name = REPEATED_SCOPE
              /\ an_last'.alerts[i].severity = "HIGH" ]_vars

\* C7 amended: the counter never decreases, and once it has reached 3 a call
\* for that session emits the HIGH repeated_scope_violations alert exactly
\* when its record is out of scope.
C7_EveryViolatingCallAfterThird ==
  [][ /\ CounterNeverDecreases
      /\ (/\ an_calls' # an_calls
          /\ session_stats'[an_last'.session_id].scope_violations >= 3)
         => (an_last'.outside <=>
               \E i \in 1..Len(an_last'.alerts) :
                 /\ an_last'.alerts[i].rule_name = REPEATED_SCOPE
                 /\ an_last'.alerts[i].severity = "HIGH") ]_vars

\* C7 witness: a session whose counter passed 3 earlier has just had an
\* in-scope record analysed, and its counter still stands.
C7_Witness ==
  /\ an_calls > 0
  /\ ~an_last.outside
  /\ session_stats[an_last.session_id].scope_violations > 3
  /\ an_last.alerts = <<>>

\* the latest timestamp of the records analysed for a session
LatestSeen(session_id) ==
  CHOOSE latest \in BagToSet(an_seen[session_id]) :
    \A ts \in BagToSet(an_seen[session_id]) : ts <= latest

\* C29: after every analyze_session call, whatever the order the records'
\* timestamps arrive in, no stored operation timestamp of a session is 60
\* minutes or more older than the latest timestamp seen for that session.
C29_OperationsWithinLastHour ==
  \A session_id \in DOMAIN session_stats :
    \A ts \in BagToSet(session_stats[session_id].operations) :
      ts > LatestSeen(session_id) - KeepMinutes

(***************************************************************************)
(* Notification handlers and the NotificationDispatcher                    *)
(***************************************************************************)
Kinds == <<"console", "logfile", "email", "webhook", "grafana">>

Severities == {"LOW", "MEDIUM", "HIGH", "CRITICAL"}

\* ConsoleNotifier.severity_levels.get(severity, 0)
severity_levels(severity) ==
  CASE severity = "CRITICAL" -> 4
    [] severity = "HIGH" -> 3
    [] severity = "MEDIUM" -> 2
    [] severity = "LOW" -> 1
    [] OTHER -> 0

\* config.get('min_severity', 'MEDIUM')
min_severity == "MEDIUM"

retry_attempts == 3

\* ConsoleNotifier.should_notify
should_notify(handler, severity) ==
  IF ~handler.enabled THEN FALSE
  ELSE severity_levels(severity) >= severity_levels(handler.min_severity)

\* what a webhook request can end in: a response of the 2xx class, a response
\* of the 3xx class (a 304, or a redirect that is not followed), a response of
\* the 4xx or 5xx class, or no response (a timeout or a refused connection)
Responses == {"2xx", "3xx", "5xx", "timeout"}

\* response.raise_for_status(): raises HTTPError for a 4xx or 5xx status only
raise_for_status(response) == response = "5xx"

\* the try body of one attempt raises a requests.RequestException
RequestException(response) == response = "timeout" \/ raise_for_status(response)

\* what the outside world does to one send: io is "ok" or "error" (the print,
\* the file write, the SMTP session or the Grafana request raises inside the
\* handler's try), payload is "ok" or "raise" (the webhook's payload template
\* does not format or parse, outside any try), attempts is what each webhook
\* request ends in
Worlds ==
  [io : {"ok", "error"}, payload : {"ok", "raise"},
   attempts : [1..retry_attempts -> Responses]]

\* the answers to the requests a send can get to make: no request follows one
\* that raised nothing, so the answers after it are left at "2xx"
WebhookAttemptsSeen ==
  { attempts \in [1..retry_attempts -> Responses] :
      \A i, j \in 1..retry_attempts :
        (i < j /\ ~RequestException(attempts[i])) => attempts[j] = "2xx" }

\* the worlds that differ for one handler: only the webhook looks at payload
\* and attempts, and only the other handlers at io
WorldsFor(handler) ==
  IF handler.kind = "webhook"
  THEN [io : {"ok"}, payload : {"ok", "raise"}, attempts : WebhookAttemptsSeen]
  ELSE [io : {"ok", "error"}, payload : {"ok"},
        attempts : {[i \in 1..retry_attempts |-> "2xx"]}]

\* ConsoleNotifier.send
ConsoleSend(handler, alert, world) ==
  IF ~should_notify(handler, alert.severity) THEN "true"
  ELSE IF world.io = "ok" THEN "true" ELSE "false"

\* LogFileNotifier.send
LogFileSend(handler, alert, world) ==
  IF ~handler.enabled THEN "true"
  ELSE IF world.io = "ok" THEN "true" ELSE "false"

\* EmailNotifier.send; handler.recipients tells whether the configuration
\* names recipients (for the severity, or as 'default')
EmailSend(handler, alert, world) ==
  IF ~handler.enabled THEN "true"
  ELSE IF ~handler.recipients THEN "true"
  ELSE IF world.io = "ok" THEN "true" ELSE "false"

\* the mutated backoff of a handler that waits 2 * attempt seconds
Pow2_linear(n) == 2 * n

RECURSIVE Pow2(_)
\* 2 ** n
Pow2(n) == IF n = 0 THEN 1 ELSE 2 * Pow2(n - 1)

\* what a send that makes no request leaves behind
NoRequests(result) ==
  [result |-> result, requests |-> 0, slept |-> 0, responses |-> <<>>,
   waits |-> <<>>]

RECURSIVE WebhookAttempts(_, _)
\* the retry loop of WebhookNotifier.send from attempt (zero-based) on
WebhookAttempts(attempts, attempt) ==
  IF attempt >= retry_attempts THEN NoRequests("false")
  ELSE IF ~RequestException(attempts[attempt + 1])
  THEN [result |-> "true", requests |-> 1, slept |-> 0,
        responses |-> <<attempts[attempt + 1]>>, waits |-> <<>>]
  ELSE LET rest == WebhookAttempts(attempts, attempt + 1)
           sleeps == attempt < retry_attempts - 1
           sleep == IF sleeps THEN Pow2(attempt) ELSE 0
       IN [result |-> rest.result, requests |-> rest.requests + 1,
           slept |-> rest.slept + sleep,
           responses |-> <<attempts[attempt + 1]>> \o rest.responses,
           waits |-> IF sleeps THEN <<sleep>> \o rest.waits ELSE rest.waits]

\* WebhookNotifier.send, with a url configured
WebhookRun(handler, alert, world) ==
  IF ~handler.enabled THEN NoRequests("true")
  ELSE IF world.payload = "raise" THEN NoRequests("raise")
  ELSE WebhookAttempts(world.attempts, 0)

WebhookSend(handler, alert, world) == WebhookRun(handler, alert, world).result

\* GrafanaNotifier.send
GrafanaSend(handler, alert, world) ==
  IF ~handler.enabled THEN "true"
  ELSE IF world.io = "ok" THEN "true" ELSE "false"

\* handler.send(alert)
Send(handler, alert, world) ==
  CASE handler.kind = "console" -> ConsoleSend(handler, alert, world)
    [] handler.kind = "logfile" -> LogFileSend(handler, alert, world)
    [] handler.kind = "email" -> EmailSend(handler, alert, world)
    [] handler.kind = "webhook" -> WebhookSend(handler, alert, world)
    [] handler.kind = "grafana" -> GrafanaSend(handler, alert, world)

\* the mutated loop body of a dispatcher without the try/except
Guarded_no_except(returned) ==
  [success_count |-> IF returned = "true" THEN success_count + 1 ELSE success_count,
   escaped |-> returned = "raise"]

\* try: if handler.send(alert): success_count += 1
\* except Exception: logging.error(...)
Guarded(returned) ==
  [success_count |-> IF returned = "true" THEN success_count + 1 ELSE success_count,
   escaped |-> FALSE]

\* the mutated verdict of a dispatcher that wants every handler to succeed
Success_all(count, total_handlers) == count > 0 /\ count = total_handlers

\* success = success_count > 0
Success(count, total_handlers) == count > 0

\* NotificationDispatcher.__init__: a handler for each section the
\* notifications config holds, enabled or not as the section says
DispatcherInitFor(configs, recipients_configured) ==
  /\ \E configured \in configs : \E on \in SUBSET configured :
     \E named \in recipients_configured :
       handlers = [i \in 1..Len(SelectSeq(Kinds, LAMBDA k : k \in configured)) |->
                     [kind |-> SelectSeq(Kinds, LAMBDA k : k \in configured)[i],
                      enabled |-> SelectSeq(Kinds, LAMBDA k : k \in configured)[i] \in on,
                      min_severity |-> min_severity,
                      recipients |-> named]]
  /\ nd_pc = "idle"
  /\ nd_alert = [severity |-> "LOW"]
  /\ nd_index = 1
  /\ success_count = 0
  /\ nd_invoked = <<>>
  /\ nd_returned = <<>>
  /\ nd_result = FALSE
  /\ nd_escaped = FALSE
  /\ wh_last = NoRequests("true")

\* the dispatcher of a configuration whose email section names recipients
DispatcherInit(configs) == DispatcherInitFor(configs, {TRUE})

\* send_alert is called: success_count = 0, and the for loop starts
send_alert_begin(alert) ==
  /\ nd_alert' = [severity |-> alert.severity]
  /\ nd_pc' = "loop"
  /\ nd_index' = 1
  /\ success_count' = 0
  /\ nd_invoked' = [i \in 1..Len(handlers) |-> 0]
  /\ nd_returned' = <<>>
  /\ nd_escaped' = FALSE
  /\ UNCHANGED <<handlers, nd_result, wh_last>>

\* a send_alert call, with an alert of any severity
SendAlertBegin ==
  /\ nd_pc \in {"idle", "done"}
  /\ \E severity \in Severities : send_alert_begin([severity |-> severity])

\* one turn of the for loop: the next handler's send, inside the try
SendAlertHandler ==
  /\ nd_pc = "loop"
  /\ nd_index <= Len(handlers)
  /\ \E world \in WorldsFor(handlers[nd_index]) :
       LET handler == handlers[nd_index]
           returned == Send(handler, nd_alert, world)
           after == Guarded(returned)
       IN /\ nd_invoked' = [nd_invoked EXCEPT ![nd_index] = @ + 1]
          /\ nd_returned' = Append(nd_returned, returned)
          /\ success_count' = after.success_count
          /\ nd_escaped' = after.escaped
          /\ nd_pc' = IF after.escaped THEN "done" ELSE "loop"
          /\ wh_last' = IF handler.kind = "webhook"
                        THEN WebhookRun(handler, nd_alert, world) ELSE wh_last
  /\ nd_index' = nd_index + 1
  /\ UNCHANGED <<handlers, nd_alert, nd_result>>

\* the loop is over: success = success_count > 0, and send_alert returns it
SendAlertEnd ==
  /\ nd_pc = "loop"
  /\ nd_index > Len(handlers)
  /\ nd_result' = Success(success_count, Len(handlers))
  /\ nd_pc' = "done"
  /\ UNCHANGED <<handlers, nd_alert, nd_index, success_count, nd_invoked,
                 nd_returned, nd_escaped, wh_last>>

(***************************************************************************)
(* Claims about the NotificationDispatcher                                 *)
(***************************************************************************)
\* the handlers this send_alert call has had an answer from
Called == 1..Len(nd_returned)

\* C8: send_alert returns True exactly when at least one handler's send
\* returned True; a handler that returned False or raised counts for nothing,
\* and does not spoil the success of another.
C8_TrueIffSomeHandlerSucceeded ==
  nd_pc = "done" =>
    (nd_result <=> \E i \in Called : nd_returned[i] = "true")

\* handler i was invoked for the alert and emitted it: it is enabled, its
\* send returned True, and it did not pass the alert over (a console handler
\* below its minimum severity, an email handler without recipients)
Emitting(i) ==
  LET handler == handlers[i]
  IN /\ handler.enabled
     /\ nd_returned[i] = "true"
     /\ handler.kind = "console" => should_notify(handler, nd_alert.severity)
     /\ handler.kind = "email" => handler.recipients

\* C37: send_alert returns True only if at least one enabled channel
\* actually emitted the alert; a disabled handler, a console handler that
\* filtered the alert by severity or an email handler without recipients
\* does not by itself make the dispatch count as successful.
C37_TrueOnlyIfSomeChannelEmitted ==
  (nd_pc = "done" /\ nd_result) =>
    \E i \in 1..Len(nd_returned) : Emitting(i)

\* C8 witness: a partial failure, send_alert returned True although one
\* handler returned False and another raised.
C8_Witness ==
  /\ nd_pc = "done"
  /\ nd_result
  /\ \E i \in Called : nd_returned[i] = "false"
  /\ \E i \in Called : nd_returned[i] = "raise"

\* C9: a failure of the Grafana handler never makes send_alert return False,
\* whatever handlers are configured: when the Grafana handler failed and no
\* other handler did, send_alert returns True.
C9_GrafanaFailureNeverFails ==
  (/\ nd_pc = "done"
   /\ \E i \in Called :
        /\ handlers[i].kind = "grafana"
        /\ nd_returned[i] = "false"
        /\ \A j \in Called \ {i} : nd_returned[j] = "true")
  => nd_result

\* C10: within one send_alert call every configured handler's send is called
\* exactly once, in turn, whatever the handlers before it answered, and no
\* exception leaves send_alert.
C10_EveryHandlerOnce ==
  /\ ~nd_escaped
  /\ nd_pc = "loop" =>
       \A i \in 1..Len(handlers) : nd_invoked[i] = (IF i < nd_index THEN 1 ELSE 0)
  /\ nd_pc = "done" =>
       \A i \in 1..Len(handlers) : nd_invoked[i] = 1

\* C10 witness: send_alert has returned after one handler raised and another
\* returned False, each followed by a handler that was still called.
C10_Witness ==
  /\ nd_pc = "done"
  /\ \E i, j \in Called : i < j /\ nd_returned[i] = "raise" /\ nd_invoked[j] = 1
  /\ \E i, j \in Called : i < j /\ nd_returned[i] = "false" /\ nd_invoked[j] = 1

\* C11: a webhook send makes at most retry_attempts requests, stops at the
\* first request answered with a 2xx response and returns True, goes on to the
\* next request after every other response and after every transport error,
\* and returns False once retry_attempts requests have all failed.
C11_WebhookRetriesUntil2xx ==
  LET responses == wh_last.responses
      n == Len(responses)
  IN /\ n <= retry_attempts
     /\ \A i \in 1..(n - 1) : responses[i] # "2xx"
     /\ n > 0 =>
          IF responses[n] = "2xx" THEN wh_last.result = "true"
          ELSE n = retry_attempts /\ wh_last.result = "false"

RECURSIVE TwoToThe(_)
\* 2^n, for the claims
TwoToThe(n) == IF n = 0 THEN 1 ELSE 2 * TwoToThe(n - 1)

\* C26: in the webhook handler the first wait is 1 second and every later
\* wait twice the one before (the wait before retry k is 2^(k-1) seconds); a
\* wait follows every failed attempt but the last one allowed, and none
\* follows a success; a send that exhausts its n attempts has slept
\* 2^(n-1) - 1 seconds in all.
C26_WebhookBackoffDoubles ==
  LET waits == wh_last.waits
      failed == Len(SelectSeq(wh_last.responses, RequestException))
  IN /\ Len(waits) = (IF failed = retry_attempts THEN failed - 1 ELSE failed)
     /\ \A k \in 1..Len(waits) : waits[k] = (IF k = 1 THEN 1 ELSE 2 * waits[k - 1])
     /\ (wh_last.result = "false" /\ wh_last.requests = retry_attempts) =>
          wh_last.slept = TwoToThe(retry_attempts - 1) - 1

\* C26 witness: a send has made every attempt allowed, failed in each and
\* waited between them.
C26_Witness ==
  /\ wh_last.result = "false"
  /\ wh_last.requests = retry_attempts
  /\ Len(wh_last.waits) = retry_attempts - 1
  /\ wh_last.slept > 0

(***************************************************************************)
(* A notification channel that hangs                                       *)
(***************************************************************************)
\* the handlers whose send can wait for ever: EmailNotifier opens
\* smtplib.SMTP(self.smtp_server, self.smtp_port) without a timeout, so a
\* server that accepts the connection and then says nothing is waited for
\* without end; the webhook and Grafana requests carry timeout=
CanHang(handler) == handler.kind = "email" /\ handler.enabled /\ handler.recipients

\* one turn of the for loop of send_alert whose handler.send(alert) does not
\* return: the loop, which calls the handlers one after the other in its own
\* thread, stays in that call
SendAlertHangs ==
  /\ nd_pc = "loop"
  /\ nd_index <= Len(handlers)
  /\ CanHang(handlers[nd_index])
  /\ nd_invoked' = [nd_invoked EXCEPT ![nd_index] = @ + 1]
  /\ nd_pc' = "hung"
  /\ UNCHANGED <<handlers, nd_alert, nd_index, success_count, nd_returned,
                 nd_result, nd_escaped, wh_last>>

\* every configured handler has been invoked by the send_alert call under way
AllInvoked ==
  /\ Len(nd_invoked) = Len(handlers)
  /\ \A i \in 1..Len(handlers) : nd_invoked[i] > 0

\* C25: a channel that never returns from send does not block the others:
\* once send_alert is in its loop, every configured handler is eventually
\* invoked.
C25_HungChannelDoesNotBlock == (nd_pc = "loop") ~> AllInvoked

(***************************************************************************)
(* SecurityAlertEngine: rules, log records and the pattern path            *)
(***************************************************************************)
\* bound: the run_once calls of one behaviour
MaxCycles == 2

\* bound: the records one query returns
MaxRecords == 2

\* datetime.now() - timedelta(hours=1), the cursor the engine starts with
StartMinutes == 60

\* the minutes a query takes
QueryMinutes == 1

\* .get('max_consecutive_errors', 5)
max_consecutive_errors == 5

\* the ceilings config['reliability']['max_consecutive_errors'] is set to in
\* the engine's own specification: ceilings low enough for the gate to close, and
\* for a counted error to be reset, within MaxCycles
Ceilings == {1, 2}

\* rule_config.get('pattern'): None, a regular expression (here a word, found
\* in a text when the text holds the word), or one re.compile rejects
NoPattern == <<>>

InvalidPattern == <<"(">>

\* a pattern re.compile raises something other than re.error for: a repetition
\* count of 2**32 or more (OverflowError), or a value YAML did not read as a
\* string, such as 123 or yes (TypeError)
OverlongPattern == <<"a{99999999999999999999}">>

\* config['rules'], in the order of the YAML file
rules_config ==
  << [name |-> <<"dangerous_rm">>, enabled |-> TRUE, severity |-> "CRITICAL",
      pattern |-> <<"rm">>, context_fields |-> <<>>],
     [name |-> <<"sudo_use">>, enabled |-> TRUE, severity |-> "MEDIUM",
      pattern |-> <<"sudo">>, context_fields |-> <<>>],
     [name |-> <<"op_quota">>, enabled |-> TRUE, severity |-> "LOW",
      pattern |-> NoPattern, context_fields |-> <<>>],
     [name |-> <<"retired">>, enabled |-> FALSE, severity |-> "HIGH",
      pattern |-> <<"rm">>, context_fields |-> <<>>],
     [name |-> <<"broken">>, enabled |-> TRUE, severity |-> "HIGH",
      pattern |-> InvalidPattern, context_fields |-> <<>>] >>

\* re.compile(rule.pattern, re.IGNORECASE): the compiled pattern, or the
\* exception raised
compile(pattern) ==
  CASE pattern = InvalidPattern -> [raised |-> "re.error", compiled |-> NoPattern]
    [] pattern = OverlongPattern -> [raised |-> "OverflowError", compiled |-> NoPattern]
    [] OTHER -> [raised |-> "none", compiled |-> pattern]

\* the AlertRule _load_rules builds of one entry of the rules config;
\* compiled_pattern is None until the pattern is compiled
LoadedRule(rule_config) ==
  [name |-> rule_config.name, severity |-> rule_config.severity,
   pattern |-> rule_config.pattern, compiled_pattern |-> NoPattern,
   context_fields |-> rule_config.context_fields]

RECURSIVE load_rules_from(_, _, _)
\* the for loop of _load_rules from entry i on, with the rules appended so
\* far: a disabled entry is passed over, a pattern is compiled if present,
\* except re.error passes over the entry, any other exception leaves the loop
load_rules_from(config, i, loaded) ==
  IF i > Len(config) THEN [raised |-> FALSE, rules |-> loaded]
  ELSE IF ~config[i].enabled THEN load_rules_from(config, i + 1, loaded)
  ELSE LET rule == LoadedRule(config[i])
           compiling == compile(rule.pattern)
       IN IF rule.pattern = NoPattern
          THEN load_rules_from(config, i + 1, Append(loaded, rule))
          ELSE CASE compiling.raised = "none" ->
                      load_rules_from(config, i + 1,
                        Append(loaded, [rule EXCEPT !.compiled_pattern = compiling.compiled]))
                 [] compiling.raised = "re.error" ->
                      load_rules_from(config, i + 1, loaded)
                 [] OTHER -> [raised |-> TRUE, rules |-> <<>>]

\* SecurityAlertEngine._load_rules: the rules list it returns, or that it raised
_load_rules(config) == load_rules_from(config, 1, <<>>)

\* self.rules
rules == _load_rules(rules_config).rules

\* log_entry.get('session_id', 'unknown'); a record without the field has <<>>
session_id_of(log_entry) ==
  IF log_entry.session_id = <<>> THEN <<"unknown">> ELSE log_entry.session_id

\* rule.compiled_pattern.search(json.dumps(log_entry, default=str)); words is
\* the set of words the record's JSON text holds
search(compiled_pattern, log_entry) == compiled_pattern[1] \in log_entry.words

\* timestamp.isoformat()
isoformat(t) == Iso(t)

\* the values a record read from JSON holds: a str, an int, None, or a dict
\* from keys to such values
Str(text) == <<"str", text>>

Number(n) == <<"int", n>>

None == <<"None">>

Dict(items) == <<"dict", items>>

\* ''
EmptyStr == Str("")

\* isinstance(value, dict)
isinstance_dict(value) == value[1] = "dict"

\* not value: '', 0, None and {} are false
not(value) == value \in {EmptyStr, Number(0), None, Dict(<<>>)}

\* value.get(key, default), of a dict
get(value, key, default) ==
  IF key \in DOMAIN value[2] THEN value[2][key] ELSE default

RECURSIVE split(_, _)
\* field.split(sep): the pieces of field between the separators
split(field, sep) ==
  IF field = <<>> THEN << <<>> >>
  ELSE LET rest == split(Tail(field), sep)
       IN IF Head(field) = sep THEN << <<>> >> \o rest
          ELSE << <<Head(field)>> \o Head(rest) >> \o Tail(rest)

RECURSIVE walk(_, _)
\* for key in keys: value = value.get(key, '') if isinstance(value, dict)
\* else ''; if not value: break
walk(value, keys) ==
  IF keys = <<>> THEN value
  ELSE LET next == IF isinstance_dict(value) THEN get(value, Head(keys), EmptyStr)
                   ELSE EmptyStr
       IN IF not(next) THEN next ELSE walk(next, Tail(keys))

\* the body of 'for field in rule.context_fields': the value stored as
\* context[field]; log_entry.items is the record as the dict it is
context_value(log_entry, field) ==
  IF \E i \in DOMAIN field : field[i] = "."
  THEN walk(log_entry.items, split(field, "."))
  ELSE get(log_entry.items, field, EmptyStr)

\* the context dict _check_pattern_rule builds
context_of(rule, log_entry) ==
  [field \in { rule.context_fields[i] : i \in DOMAIN rule.context_fields } |->
     context_value(log_entry, field)]

\* the text of the record's timestamp field, '' when it has none
timestamp_text(timestamp) ==
  IF Len(timestamp) = 2 THEN <<timestamp[1], ToString(timestamp[2])>> ELSE timestamp

\* SecurityAlertEngine._generate_alert_id: the digest of f"{rule_name}_
\* {log_entry.get('session_id', '')}_{log_entry.get('timestamp', '')}"
_generate_alert_id(rule_name, log_entry) ==
  md5_12(rule_name \o <<"_">> \o log_entry.session_id \o <<"_">>
         \o timestamp_text(log_entry.timestamp))

\* SecurityAlertEngine._check_pattern_rule, when the pattern matches: the
\* timestamp string of the record is taken as it is unless it is empty
PatternAlert(rule, log_entry, now) ==
  [alert_id |-> _generate_alert_id(rule.name, log_entry),
   rule_name |-> rule.name, severity |-> rule.severity,
   timestamp |-> IF log_entry.timestamp = NoTimestamp THEN isoformat(now)
                 ELSE log_entry.timestamp,
   session_id |-> session_id_of(log_entry),
   context |-> context_of(rule, log_entry), raw_log |-> log_entry]

\* the mutated rule loop of an engine that stops at the first matching rule
PatternAlertsOf_first_match(loaded, log_entry, now) ==
  LET matching == SelectSeq(loaded, LAMBDA rule :
                    rule.compiled_pattern # NoPattern
                    /\ search(rule.compiled_pattern, log_entry))
  IN IF matching = <<>> THEN <<>> ELSE <<PatternAlert(matching[1], log_entry, now)>>

\* for rule in self.rules: if rule.compiled_pattern: alert =
\* self._check_pattern_rule(rule, log_entry); if alert: alerts.append(alert)
PatternAlertsOf(loaded, log_entry, now) ==
  LET matching == SelectSeq(loaded, LAMBDA rule :
                    rule.compiled_pattern # NoPattern
                    /\ search(rule.compiled_pattern, log_entry))
  IN [i \in 1..Len(matching) |-> PatternAlert(matching[i], log_entry, now)]

\* the records the log source holds: one matching both patterns, out of
\* scope; one matching one pattern, without timestamp or session; one whose
\* timestamp no parser accepts; one whose action_details is not a dict
EngineRecords ==
  { [timestamp |-> Iso(0), session_id |-> <<"s">>, words |-> {"rm", "sudo"},
     action_details |-> "dict", outside_project_scope |-> TRUE],
    [timestamp |-> NoTimestamp, session_id |-> <<>>, words |-> {"sudo"},
     action_details |-> "absent", outside_project_scope |-> FALSE],
    [timestamp |-> BadTimestamp, session_id |-> <<"s">>, words |-> {"rm"},
     action_details |-> "dict", outside_project_scope |-> FALSE],
    [timestamp |-> Iso(5), session_id |-> <<"s">>, words |-> {"sudo"},
     action_details |-> "str", outside_project_scope |-> FALSE] }

\* the lists a query can return
EngineLogs ==
  UNION { [1..n -> EngineRecords] : n \in 0..MaxRecords }

EngineSessions == { <<"s">>, <<"unknown">> }

\* the dedup keys of the alerts the engine can produce
EngineKeys ==
  { Join(<<name, session_id>>, <<"|">>) :
      name \in { rules_config[i].name : i \in 1..Len(rules_config) }
                 \cup {HIGH_FREQUENCY, REPEATED_SCOPE},
      session_id \in EngineSessions }

(***************************************************************************)
(* SecurityAlertEngine: check_health, process_logs and run_once            *)
(***************************************************************************)
\* datetime.fromisoformat(timestamp) raises a ValueError: the string is no
\* ISO date
fromisoformat_raises(timestamp) == timestamp = BadTimestamp

\* datetime.fromisoformat(timestamp), for a string it accepts
fromisoformat(timestamp) == timestamp[2]

\* the alerts analyze_session returned, as the Alert objects it built: their
\* timestamp is timestamp.isoformat()
Isoformatted(returned) ==
  [i \in DOMAIN returned |-> [returned[i] EXCEPT !.timestamp = isoformat(@)]]

\* the mutated check_health of an engine without the error ceiling
check_health_no_ceiling(ready) ==
  IF ~ready THEN FALSE ELSE TRUE

\* SecurityAlertEngine.check_health; ready is what LokiClient.health_check
\* answers (GET /ready gave status 200)
check_health(ready) ==
  IF ~ready THEN FALSE
  ELSE IF error_count >= max_errors THEN FALSE
  ELSE TRUE

\* LokiClient.query_range: "ok" returns the records found; "request_error" (a
\* transport error or an HTTP error status) is caught inside query_range, which
\* returns []; "type_error" (a log line holding JSON that is no object, so that
\* log_data['_timestamp'] = timestamp fails) leaves query_range as a TypeError
QueryOutcomes == {"ok", "request_error", "type_error"}

query_range(outcome, found) ==
  CASE outcome = "ok" -> [raised |-> FALSE, logs |-> found]
    [] outcome = "request_error" -> [raised |-> FALSE, logs |-> <<>>]
    [] outcome = "type_error" -> [raised |-> TRUE, logs |-> <<>>]

\* what the engine holds when a cycle begins
Snapshot ==
  [now |-> wallclock, last_check_time |-> last_check_time,
   error_count |-> error_count,
   alert_history |-> alert_history, session_stats |-> session_stats]

\* SecurityAlertEngine.__init__
EngineInitFor(ceilings) ==
  /\ max_errors \in ceilings
  /\ wallclock = StartMinutes
  /\ last_check_time = wallclock - StartMinutes
  /\ error_count = 0
  /\ alert_count = 0
  /\ eng_pc = "idle"
  /\ logs = <<>>
  /\ log_index = 1
  /\ end_time = 0
  /\ alerts = <<>>
  /\ alert_index = 1
  /\ sent_alerts = 0
  /\ eng_status = 0
  /\ eng_cycles = 0
  /\ eng_before = Snapshot
  /\ eng_ready = TRUE
  /\ eng_query = "none"
  /\ eng_evaluated = <<>>
  /\ eng_deduped = <<>>
  /\ eng_handed = <<>>
  /\ eng_delivered = <<>>
  /\ eng_held = 0
  /\ eng_windows = <<>>
  /\ eng_store = <<>>

\* the engine of a configuration without a reliability section
EngineInit == EngineInitFor({max_consecutive_errors})

\* a run_once call begins
CycleBegins ==
  /\ eng_pc \in {"idle", "returned"}
  /\ eng_cycles < MaxCycles
  /\ eng_cycles' = eng_cycles + 1
  /\ UNCHANGED max_errors
  /\ eng_before' = Snapshot
  /\ eng_evaluated' = <<>>
  /\ eng_deduped' = <<>>
  /\ eng_handed' = <<>>

\* return 1 after a failed health check, return 0 at the end of run_once
Status(healthy) == IF healthy THEN 0 ELSE 1

\* run_once: if not self.check_health(): return 1
RunOnceUnhealthy ==
  /\ CycleBegins
  /\ \E ready \in BOOLEAN : ~check_health(ready) /\ eng_ready' = ready
  /\ eng_status' = Status(FALSE)
  /\ eng_pc' = "returned"
  /\ eng_query' = "none"
  /\ UNCHANGED <<last_check_time, error_count, alert_count, wallclock, logs,
                 log_index, end_time, alerts, alert_index, sent_alerts>>
  /\ UNCHANGED <<dd_vars, an_vars, nd_vars>>

\* a run_once call beyond those the model counts that fails its health
\* check: it returns 1, and the engine is left as it was before the call
RunOnceUnhealthyAgain ==
  /\ eng_pc = "returned"
  /\ eng_cycles = MaxCycles
  /\ \E ready \in BOOLEAN : ~check_health(ready) /\ eng_ready' = ready
  /\ eng_status' = Status(FALSE)
  /\ eng_pc' = "returned"
  /\ eng_query' = "none"
  /\ eng_before' = Snapshot
  /\ eng_evaluated' = <<>>
  /\ eng_deduped' = <<>>
  /\ eng_handed' = <<>>
  /\ UNCHANGED <<max_errors, eng_cycles>>
  /\ UNCHANGED <<last_check_time, error_count, alert_count, wallclock, logs,
                 log_index, end_time, alerts, alert_index, sent_alerts>>
  /\ UNCHANGED <<dd_vars, an_vars, nd_vars>>

\* run_once after a passed health check, into process_logs: end_time is read
\* off the wallclock, then the query is made
RunOnceQuery ==
  /\ CycleBegins
  /\ \E ready \in BOOLEAN : check_health(ready) /\ eng_ready' = ready
  /\ end_time' = wallclock
  /\ wallclock' = wallclock + QueryMinutes
  /\ \E outcome \in QueryOutcomes, found \in EngineLogs :
       LET answer == query_range(outcome, found)
       IN /\ outcome # "ok" => found = <<>>
          /\ eng_query' = outcome
          /\ logs' = answer.logs
          /\ error_count' = IF answer.raised THEN error_count + 1 ELSE error_count
          /\ eng_pc' = IF answer.raised THEN "alerts" ELSE "evaluate"
  /\ alerts' = <<>>
  /\ log_index' = 1
  /\ alert_index' = 1
  /\ sent_alerts' = 0
  /\ UNCHANGED <<last_check_time, alert_count, eng_status>>
  /\ UNCHANGED <<dd_vars, an_vars, nd_vars>>

\* limit=1000, the most entries one query_range call asks the log source
\* for, at the model's scale: the most records one query returns
limit == MaxRecords

\* the numbers of records the log source can hold for a window of which a
\* query has returned some: those returned when the query was answered
\* below the limit, those or more when the limit was reached, and any
\* number when the request failed
HeldFor(outcome, returned) ==
  IF outcome # "ok" THEN 0..(limit + 1)
  ELSE IF Len(returned) < limit THEN {Len(returned)}
  ELSE Len(returned)..(limit + 1)

\* RunOnceQuery, with the number of records the log source held for the
\* queried window kept
RunOnceQueryHeld ==
  /\ RunOnceQuery
  /\ eng_held' \in HeldFor(eng_query', logs')
  /\ UNCHANGED <<eng_delivered, eng_windows, eng_store>>

\* RunOnceQuery, with the window of the query kept: start=self.last_check_time,
\* end=end_time
RunOnceQueryWindow ==
  /\ RunOnceQuery
  /\ eng_windows' = Append(eng_windows, [start |-> last_check_time, end |-> end_time',
                                         advanced |-> FALSE])
  /\ UNCHANGED <<eng_delivered, eng_held, eng_store>>

\* the records of the store
Stored == [i \in DOMAIN eng_store |-> eng_store[i].log_entry]

\* RunOnceQuery against a log source that keeps what it holds: a query that
\* is answered returns, after the records that have come in since (newest
\* first), the records the last query from this cursor returned
RunOnceQueryStore ==
  /\ RunOnceQuery
  /\ IF eng_query' = "ok"
     THEN /\ Len(logs') >= Len(Stored)
          /\ SubSeq(logs', Len(logs') - Len(Stored) + 1, Len(logs')) = Stored
          /\ eng_store' =
               [i \in DOMAIN logs' |->
                  [log_entry |-> logs'[i],
                   times |-> IF i <= Len(logs') - Len(Stored) THEN 0
                             ELSE eng_store[i - (Len(logs') - Len(Stored))].times]]
     ELSE UNCHANGED eng_store
  /\ UNCHANGED <<eng_delivered, eng_held, eng_windows>>

\* analyze_session for a record it raises on after the operations were
\* tracked: action_details is no dict, .get fails with an AttributeError
analyze_session_raises(session_id, log_entry, now) ==
  LET stats == session_stats[session_id]
      timestamp == ParseTimestamp(log_entry.timestamp, now)
      start_time == IF stats.start_time = <<>> THEN <<timestamp>> ELSE stats.start_time
      appended == stats.operations (+) SetToBag({timestamp})
      operations == After(appended, timestamp - KeepMinutes)
  IN /\ session_stats' = [session_stats EXCEPT ![session_id] =
                            [operations |-> operations,
                             scope_violations |-> stats.scope_violations,
                             start_time |-> start_time]]
     /\ an_seen' = [an_seen EXCEPT ![session_id] = @ (+) SetToBag({timestamp})]
     /\ UNCHANGED <<an_last, an_outside>>

\* the mutated except clause of a process_logs that does not count the error
Failed_uncounted(count) == count

\* except Exception: self.error_count += 1
Failed(count) == count + 1

\* one turn of the for loop of process_logs: the pattern rules, then the
\* behavioural analysis; an exception ends the loop in the except clause,
\* and process_logs returns the alerts gathered so far
ProcessLogsRecord ==
  /\ eng_pc = "evaluate"
  /\ log_index <= Len(logs)
  /\ LET log_entry == logs[log_index]
         pattern == PatternAlertsOf(rules, log_entry, wallclock)
         session_id == session_id_of(log_entry)
         raises == log_entry.action_details = "str"
     IN /\ IF raises
           THEN analyze_session_raises(session_id, log_entry, wallclock)
           ELSE analyze_session(session_id, log_entry, wallclock)
        /\ an_calls' = an_calls + 1
        /\ alerts' = IF raises THEN alerts \o pattern
                     ELSE alerts \o pattern \o Isoformatted(an_last'.alerts)
        /\ eng_evaluated' = Append(eng_evaluated,
                              [log_entry |-> log_entry, pattern |-> pattern,
                               raised |-> raises])
        /\ error_count' = IF raises THEN Failed(error_count) ELSE error_count
        /\ eng_pc' = IF raises THEN "alerts" ELSE "evaluate"
  /\ log_index' = log_index + 1
  /\ UNCHANGED <<last_check_time, alert_count, wallclock, logs, end_time,
                 alert_index, sent_alerts, eng_status, eng_cycles,
                 eng_before, max_errors, eng_ready, eng_query, eng_deduped,
                 eng_handed>>
  /\ UNCHANGED <<dd_vars, nd_vars>>

\* the mutated end of a process_logs that moves the cursor to the clock's
\* reading after the loop
Advanced_to_now(queried_end, now) == now

\* self.last_check_time = end_time
Advanced(queried_end, now) == queried_end

\* the for loop of process_logs is over without an exception: the cursor
\* moves to end_time, the error count is reset, process_logs returns
ProcessLogsEnd ==
  /\ eng_pc = "evaluate"
  /\ log_index > Len(logs)
  /\ last_check_time' = Advanced(end_time, wallclock)
  /\ error_count' = 0
  /\ eng_pc' = "alerts"
  /\ UNCHANGED <<alert_count, wallclock, logs, log_index, end_time, alerts,
                 alert_index, sent_alerts, eng_status, eng_cycles,
                 eng_before, max_errors, eng_ready, eng_query, eng_evaluated,
                 eng_deduped, eng_handed>>
  /\ UNCHANGED <<dd_vars, an_vars, nd_vars>>

\* ProcessLogsRecord, with the record counted once more: analyze_session has
\* appended its timestamp to the session's operations, and raised or not
ProcessLogsRecordStore ==
  /\ ProcessLogsRecord
  /\ eng_store' = [eng_store EXCEPT ![log_index].times = @ + 1]
  /\ UNCHANGED <<eng_delivered, eng_held, eng_windows>>

\* ProcessLogsEnd: the cursor has moved, and what the log source holds from
\* the new cursor on has not been returned yet
ProcessLogsEndStore ==
  /\ ProcessLogsEnd
  /\ eng_store' = <<>>
  /\ UNCHANGED <<eng_delivered, eng_held, eng_windows>>

\* ProcessLogsEnd, with the window of this cycle's query marked as one the
\* cursor was moved after
ProcessLogsEndWindow ==
  /\ ProcessLogsEnd
  /\ eng_windows' = [eng_windows EXCEPT ![Len(eng_windows)].advanced = TRUE]
  /\ UNCHANGED <<eng_delivered, eng_held, eng_store>>

\* the mutated test of a run_once that sends what the deduplicator suppressed
Surviving_all(answer) == TRUE

\* if self.deduplicator.should_alert(alert):
Surviving(answer) == answer

\* one turn of the for loop of run_once: should_alert, outside the try, and
\* for a surviving alert the call of self.notifier.send_alert, inside it; an
\* alert whose timestamp fromisoformat rejects makes should_alert raise, and
\* the exception leaves run_once
RunOnceAlert ==
  /\ eng_pc = "alerts"
  /\ alert_index <= Len(alerts)
  /\ LET alert == alerts[alert_index]
     IN IF enabled /\ fromisoformat_raises(alert.timestamp)
        THEN /\ eng_pc' = "raised"
             /\ UNCHANGED <<alert_index, eng_deduped, eng_handed>>
             /\ UNCHANGED <<dd_vars, nd_vars>>
        ELSE /\ should_alert(IF fromisoformat_raises(alert.timestamp) THEN alert
                             ELSE [alert EXCEPT !.timestamp = fromisoformat(@)])
             /\ dd_calls' = dd_calls + 1
             /\ UNCHANGED enabled
             /\ eng_deduped' = Append(eng_deduped,
                                 [alert |-> alert, answer |-> dd_last'.answer])
             /\ IF Surviving(dd_last'.answer)
                THEN /\ send_alert_begin(alert)
                     /\ eng_handed' = Append(eng_handed, alert)
                     /\ eng_pc' = "sending"
                     /\ UNCHANGED alert_index
                ELSE /\ alert_index' = alert_index + 1
                     /\ UNCHANGED <<eng_pc, eng_handed>>
                     /\ UNCHANGED nd_vars
  /\ UNCHANGED <<last_check_time, error_count, alert_count, wallclock, logs,
                 log_index, end_time, alerts, sent_alerts, eng_status,
                 eng_cycles, eng_before, max_errors, eng_ready, eng_query,
                 eng_evaluated>>
  /\ UNCHANGED an_vars

\* send_alert has returned (or, were an exception to leave it, the except
\* clause has logged it): its locals are gone and its result is dropped; the
\* counters, and on to the next alert
RunOnceSent ==
  /\ eng_pc = "sending"
  /\ nd_pc = "done"
  /\ sent_alerts' = IF nd_escaped THEN sent_alerts ELSE sent_alerts + 1
  /\ alert_count' = IF nd_escaped THEN alert_count ELSE alert_count + 1
  /\ alert_index' = alert_index + 1
  /\ eng_pc' = "alerts"
  /\ UNCHANGED <<last_check_time, error_count, wallclock, logs, log_index,
                 end_time, alerts, eng_status, eng_cycles, eng_before,
                 max_errors, eng_ready, eng_query, eng_evaluated,
                 eng_deduped, eng_handed>>
  /\ nd_pc' = "idle"
  /\ nd_alert' = [severity |-> "LOW"]
  /\ nd_index' = 1
  /\ success_count' = 0
  /\ nd_invoked' = <<>>
  /\ nd_returned' = <<>>
  /\ nd_result' = FALSE
  /\ nd_escaped' = FALSE
  /\ UNCHANGED <<handlers, wh_last>>
  /\ UNCHANGED <<dd_vars, an_vars>>

\* RunOnceSent, with the alert kept in the history of the delivered alerts
\* when send_alert returned True
RunOnceSentNoted ==
  /\ RunOnceSent
  /\ UNCHANGED <<eng_held, eng_windows, eng_store>>
  /\ eng_delivered' = IF nd_result /\ ~nd_escaped
                      THEN Append(eng_delivered, alerts[alert_index])
                      ELSE eng_delivered

\* the for loop of run_once is over: return 0
RunOnceReturn ==
  /\ eng_pc = "alerts"
  /\ alert_index > Len(alerts)
  /\ eng_status' = Status(TRUE)
  /\ eng_pc' = "returned"
  /\ UNCHANGED <<last_check_time, error_count, alert_count, wallclock, logs,
                 log_index, end_time, alerts, alert_index, sent_alerts,
                 eng_cycles, eng_before, max_errors, eng_ready, eng_query,
                 eng_evaluated, eng_deduped, eng_handed>>
  /\ UNCHANGED <<dd_vars, an_vars, nd_vars>>

(***************************************************************************)
(* Claims about the SecurityAlertEngine                                    *)
(***************************************************************************)
\* the cursor, the error count, the dedup history and the session state are
\* what they were when this cycle began
AsBefore ==
  /\ last_check_time = eng_before.last_check_time
  /\ error_count = eng_before.error_count
  /\ alert_history = eng_before.alert_history
  /\ session_stats = eng_before.session_stats

\* C12: a cycle that begins with the log source not ready, or with the
\* consecutive-error count at or above the ceiling, returns a non-zero status
\* without a query and without evaluating a record, and leaves the cursor, the
\* error count, the dedup history and the session state as they were.
C12_UnhealthyCycleChangesNothing ==
  (eng_cycles > 0 /\ (~eng_ready \/ eng_before.error_count >= max_errors)) =>
    /\ eng_pc = "returned"
    /\ eng_status # 0
    /\ eng_query = "none"
    /\ eng_evaluated = <<>>
    /\ AsBefore

\* C12 witness: the second cycle found the log source ready and returned 1
\* all the same, because the first cycle left an error counted, after it had
\* written session state.
C12_Witness ==
  /\ eng_cycles = 2
  /\ eng_pc = "returned"
  /\ eng_status = 1
  /\ eng_ready
  /\ error_count >= max_errors
  /\ \E s \in EngineSessions : session_stats[s] # NewStats

\* process_logs of this cycle has returned
Processed == eng_query # "none" /\ eng_pc \in {"alerts", "sending", "returned", "raised"}

\* C13: a cycle whose query fails with a transport or HTTP error counts one
\* more consecutive error and leaves the cursor where it was, so that the
\* next cycle queries the same range again.
C13_QueryFailureCounted ==
  (eng_query = "request_error" /\ Processed) =>
    /\ error_count = eng_before.error_count + 1
    /\ last_check_time = eng_before.last_check_time

\* evaluating some record of this cycle raised an exception
EvaluationRaised == \E i \in DOMAIN eng_evaluated : eng_evaluated[i].raised

\* C14: a cycle in which the evaluation of some record raises an exception
\* counts exactly one more consecutive error and leaves the cursor at the
\* value it had before the cycle.
C14_EvaluationErrorCounted ==
  (Processed /\ EvaluationRaised) =>
    /\ error_count = eng_before.error_count + 1
    /\ last_check_time = eng_before.last_check_time

\* C14 witness: the second record of a cycle raised after the first had given
\* alerts; run_once has returned with one error counted and the cursor where
\* the engine started.
C14_Witness ==
  /\ eng_pc = "returned"
  /\ Len(eng_evaluated) = 2
  /\ eng_evaluated[2].raised
  /\ eng_handed # <<>>
  /\ error_count = 1
  /\ last_check_time = 0
  /\ wallclock > StartMinutes

\* C15: a healthy cycle whose query and evaluation complete without an
\* exception leaves the cursor at the end of the window it queried, which is
\* the clock's reading from before the query, and the error count at 0.
C15_SuccessAdvancesCursor ==
  (Processed /\ eng_query = "ok" /\ ~EvaluationRaised) =>
    /\ last_check_time = eng_before.now
    /\ error_count = 0

\* C15 witness: after a cycle that counted an error, a cycle of two records
\* went through; the clock has moved on since the query began, the cursor is
\* where the clock was, and the error count is back at 0.
C15_Witness ==
  /\ eng_cycles = 2
  /\ eng_pc = "returned"
  /\ eng_query = "ok"
  /\ Len(eng_evaluated) = 2
  /\ ~EvaluationRaised
  /\ eng_before.error_count = 1
  /\ error_count = 0
  /\ last_check_time = eng_before.now
  /\ wallclock > eng_before.now

\* some candidate alert of this cycle has not been through should_alert yet,
\* or has survived it and is still with the dispatcher
AlertsPending == Len(eng_deduped) < Len(alerts) \/ eng_pc = "sending"

\* C16: the cursor moves only after every candidate alert of the cycle has
\* been through the deduplicator and every surviving one has been handed to
\* the dispatcher: in no state has the cursor left its value from before the
\* cycle while alerts of the cycle are pending.
C16_CursorMovesAfterDispatch ==
  eng_cycles > 0 =>
    ~(last_check_time # eng_before.last_check_time /\ AlertsPending)

\* C17: whatever the records hold (a malformed or missing timestamp, missing
\* fields, nested fields of an unexpected shape), no exception leaves
\* run_once: every cycle returns a status, and the alerts of the cycle's
\* other records are still deduplicated and dispatched.
C17_RunOnceNeverRaises == eng_pc # "raised"

\* the health check of this cycle passed: the log source was ready and the
\* error count was below the ceiling
Healthy == eng_ready /\ eng_before.error_count < max_errors

\* the pull/evaluate phase of this cycle ended in an exception
ProcessingFailed == eng_query = "type_error" \/ EvaluationRaised

\* C18: the status run_once returns is zero exactly when the cycle was healthy
\* and its pull/evaluate phase went through without an exception; it is
\* non-zero after a failed health check and after a failed pull/evaluate phase.
C18_StatusReflectsOutcome ==
  (eng_cycles > 0 /\ eng_pc = "returned") =>
    (eng_status = 0 <=> (Healthy /\ ~ProcessingFailed))

\* the alerts of this cycle that should_alert answered True for, in call order
Survivors ==
  LET survived == SelectSeq(eng_deduped, LAMBDA call : call.answer)
  IN [i \in 1..Len(survived) |-> survived[i].alert]

\* C19: the alerts handed to the dispatcher in a cycle are the candidates
\* should_alert answered True for in that cycle, each handed over once, in
\* turn; a candidate should_alert answered False for is not handed over.
C19_OnlySurvivorsDispatched ==
  /\ Len(eng_deduped) <= Len(alerts)
  /\ \A i \in 1..Len(eng_deduped) : eng_deduped[i].alert = alerts[i]
  /\ eng_handed = Survivors

\* C19 witness: a cycle has returned in which should_alert suppressed one
\* candidate and let others through.
C19_Witness ==
  /\ eng_pc = "returned"
  /\ Len(eng_deduped) = Len(alerts)
  /\ \E i \in 1..Len(eng_deduped) : ~eng_deduped[i].answer
  /\ \E i \in 1..Len(eng_deduped) : eng_deduped[i].answer
  /\ Len(eng_handed) < Len(alerts)

\* how many of the alerts in found carry the name of rule
AlertsOfRule(found, rule) ==
  Cardinality({ n \in DOMAIN found : found[n].rule_name = rule.name })

\* C20: for each record evaluated, the pattern path gives exactly one alert
\* for every loaded rule whose compiled pattern matches the record and none
\* for any other rule, so that a record matching k rules gives k alerts.
C20_OneAlertPerMatchingRule ==
  \A i \in DOMAIN eng_evaluated :
    LET evaluated == eng_evaluated[i]
        matching == { j \in DOMAIN rules :
                        /\ rules[j].compiled_pattern # NoPattern
                        /\ rules[j].compiled_pattern[1] \in evaluated.log_entry.words }
    IN /\ \A j \in DOMAIN rules :
            AlertsOfRule(evaluated.pattern, rules[j]) = (IF j \in matching THEN 1 ELSE 0)
       /\ Len(evaluated.pattern) = Cardinality(matching)

\* C20 witness: one cycle evaluated a record matching two rules and a record
\* matching one, and the pattern path gave two alerts and one.
C20_Witness ==
  /\ Len(eng_evaluated) = 2
  /\ Len(eng_evaluated[1].pattern) = 2
  /\ eng_evaluated[1].pattern[1].rule_name # eng_evaluated[1].pattern[2].rule_name
  /\ Len(eng_evaluated[2].pattern) = 1

(***************************************************************************)
(* The pattern rules: SecurityAlertEngine._load_rules at construction and   *)
(* _check_pattern_rule at evaluation                                        *)
(***************************************************************************)
\* bound: the entries of one rules config
MaxRules == 2

LoadNames == { <<"rule_a">>, <<"rule_b">>, <<"rule_c">> }

LoadPatterns == { NoPattern, <<"rm">>, InvalidPattern, OverlongPattern }

\* the rules configs of at most MaxRules entries: a YAML mapping, so no two
\* entries have the same name
LoadConfigs ==
  LET entries == [name : LoadNames, enabled : BOOLEAN, severity : {"HIGH"},
                  pattern : LoadPatterns, context_fields : {<<>>}]
  IN { config \in UNION { [1..n -> entries] : n \in 0..MaxRules } :
         \A i, j \in DOMAIN config : config[i].name = config[j].name => i = j }

\* the record no evaluation has looked at yet
NoRecord == [timestamp |-> NoTimestamp, session_id |-> <<>>, words |-> {}]

\* before SecurityAlertEngine.__init__ calls _load_rules
RulesInitFor(configs) ==
  /\ rl_config \in configs
  /\ rl_pc = "new"
  /\ rl_rules = <<>>
  /\ rl_record = NoRecord
  /\ rl_alerts = <<>>

\* after construction with the rules config of the model
RulesInit ==
  /\ rl_config = rules_config
  /\ rl_pc = "loaded"
  /\ rl_rules = rules
  /\ rl_record = NoRecord
  /\ rl_alerts = <<>>

\* self.rules = self._load_rules(), in __init__
LoadRules ==
  /\ rl_pc = "new"
  /\ LET returned == _load_rules(rl_config)
     IN /\ rl_pc' = IF returned.raised THEN "raised" ELSE "loaded"
        /\ rl_rules' = returned.rules
  /\ UNCHANGED <<rl_config, rl_record, rl_alerts>>

\* the pattern part of process_logs for one record of the log source
Evaluate(records) ==
  /\ rl_pc = "loaded"
  /\ \E log_entry \in records :
       /\ rl_record' = log_entry
       /\ rl_alerts' = PatternAlertsOf(rl_rules, log_entry, StartMinutes)
  /\ UNCHANGED <<rl_config, rl_pc, rl_rules>>

\* bound: the context fields of one rule
MaxFields == 2

\* the dotted context fields of the rules: a path that can exist, one whose
\* last key no record has, and one a level deeper
ContextFields ==
  { <<"action_details", ".", "command">>,
    <<"action_details", ".", "missing">>,
    <<"action_details", ".", "command", ".", "name">> }

\* one enabled rule that matches every record, with its context fields
ContextConfigs ==
  { << [name |-> <<"rule_a">>, enabled |-> TRUE, severity |-> "HIGH",
        pattern |-> <<"rm">>, context_fields |-> context_fields] >> :
      context_fields \in UNION { [1..n -> ContextFields] : n \in 0..MaxFields } }

\* the values without keys
Leaves == { Str("rm -rf /"), EmptyStr, Number(0), Number(7), None }

\* the dicts with at most the one key, holding one of the values
DictsOver(key, values) ==
  { Dict(<<>>) } \cup { Dict(key :> value) : value \in values }

\* the records of the context fields: action_details is missing or holds a
\* value without keys or a dict, command in it likewise, name in it likewise
ContextRecords ==
  LET commands == Leaves \cup DictsOver(<<"name">>, Leaves)
      details == Leaves \cup DictsOver(<<"command">>, commands)
  IN { [timestamp |-> Iso(0), session_id |-> <<"s">>, words |-> {"rm"},
        items |-> items] : items \in DictsOver(<<"action_details">>, details) }

(***************************************************************************)
(* Claims about the pattern rules                                          *)
(***************************************************************************)
\* a pattern is valid when it is a regular expression
ValidPattern(pattern) == pattern \notin {InvalidPattern, OverlongPattern}

\* the entries of the config that are enabled and whose pattern, if any, is valid
Loadable(config) ==
  SelectSeq(config, LAMBDA rule_config :
    rule_config.enabled /\ ValidPattern(rule_config.pattern))

\* C21: loading never fails; once loaded, the rules are exactly the enabled
\* entries without an invalid pattern, in config order (an invalid entry is
\* skipped and every other enabled one kept, a disabled one is never
\* loaded); every alert an evaluation gives is for one of them; and no loaded
\* rule holds a pattern that could fail at evaluation time.
C21_InvalidAndDisabledRulesSkipped ==
  /\ rl_pc # "raised"
  /\ rl_pc = "loaded" =>
       /\ [i \in DOMAIN rl_rules |-> rl_rules[i].name]
            = [i \in DOMAIN Loadable(rl_config) |-> Loadable(rl_config)[i].name]
       /\ \A i \in DOMAIN rl_rules : ValidPattern(rl_rules[i].compiled_pattern)
       /\ \A i \in DOMAIN rl_alerts :
            \E j \in DOMAIN Loadable(rl_config) :
              rl_alerts[i].rule_name = Loadable(rl_config)[j].name

RECURSIVE AtPath(_, _)
\* the value at the path of keys below value, when every key along it exists
\* in nested mappings; the empty value when a key is missing or a value on
\* the way is not a mapping
AtPath(value, keys) ==
  IF keys = <<>> THEN value
  ELSE IF value[1] = "dict" /\ Head(keys) \in DOMAIN value[2]
  THEN AtPath(value[2][Head(keys)], Tail(keys))
  ELSE EmptyStr

\* C22: for every dotted context field of a rule, the context value of an
\* alert is the value at that path of the record when every key along it
\* exists in nested mappings, and the empty value when a key is missing or
\* an intermediate value is not a mapping, whatever that value is.
C22_DottedContextExtraction ==
  \A i \in DOMAIN rl_alerts :
    \A field \in DOMAIN rl_alerts[i].context :
      rl_alerts[i].context[field] = AtPath(rl_record.items, split(field, "."))

(***************************************************************************)
(* LogFileNotifier: the log file and its rotation                          *)
(***************************************************************************)
\* bound: the send calls of one behaviour
MaxSends == 5

\* bound: the highest backup number the log directory is looked at for
MaxBackup == 3

\* the sizes of one alert line, in units of which max_size_mb counts whole ones
LineSizes == {1, 2}

\* rotation_config.get('max_size_mb', 100)
MaxSizes == {2, 3}

\* rotation_config.get('keep_files', 5): any number, none kept included
KeepFiles == {0, 1, 2}

\* a path at which no file exists
NoFile == [exists |-> FALSE, lines |-> <<>>]

RECURSIVE st_size(_)
\* self.log_path.stat().st_size: the sizes of the lines, added up
st_size(lines) ==
  IF lines = <<>> THEN 0 ELSE Head(lines).size + st_size(Tail(lines))

\* old_file.rename(new_file): the file is at the new path, replacing what
\* was there, and no longer at the old one
rename(files, old_file, new_file) ==
  [files EXCEPT ![new_file] = files[old_file], ![old_file] = NoFile]

\* the mutated loop of a rotation that leaves the backups where they are
shift_nothing(files, i) == files

RECURSIVE shift(_, _)
\* for i in range(keep_files - 1, 0, -1), from i on: if old_file.exists():
\* old_file.rename(new_file)
shift(files, i) ==
  IF i < 1 THEN files
  ELSE shift(IF files[i].exists THEN rename(files, i, i + 1) ELSE files, i - 1)

\* LogFileNotifier._rotate_if_needed: the log directory it leaves and the
\* rotations it made
_rotate_if_needed(files, rotation_config) ==
  IF ~files[0].exists THEN [files |-> files, rotations |-> 0]
  ELSE IF st_size(files[0].lines) < rotation_config.max_size_mb
  THEN [files |-> files, rotations |-> 0]
  ELSE [files |-> rename(shift(files, rotation_config.keep_files - 1), 0, 1),
        rotations |-> 1]

\* with open(self.log_path, 'a') as f: f.write(log_line + '\n')
write(files, log_line) ==
  [files EXCEPT ![0] = [exists |-> TRUE, lines |-> Append(files[0].lines, log_line)]]

\* what a send that has not happened leaves behind
NoSend == [log_line |-> [id |-> 0, size |-> 0], rotations |-> 0, returned |-> "true"]

\* LogFileNotifier.__init__, in a log directory without files
LogFileInit(handlers_configured) ==
  /\ lf_handler \in handlers_configured
  /\ lf_files = [i \in 0..MaxBackup |-> NoFile]
  /\ lf_sends = 0
  /\ lf_before = lf_files
  /\ lf_last = NoSend

\* the log-file handlers of the model: enabled or not, every rotation config
LogFileHandlers ==
  [kind : {"logfile"}, enabled : BOOLEAN, max_size_mb : MaxSizes, keep_files : KeepFiles]

\* LogFileNotifier.send: the rotation if needed, then the line appended; the
\* world's io error is raised by the open or the write, after the rotation
LogFileNotifierSend ==
  /\ lf_sends < MaxSends
  /\ \E size \in LineSizes : \E world \in WorldsFor(lf_handler) :
       LET log_line == [id |-> lf_sends + 1, size |-> size]
           returned == LogFileSend(lf_handler, log_line, world)
           rotated == _rotate_if_needed(lf_files, lf_handler)
       IN /\ lf_files' = IF ~lf_handler.enabled THEN lf_files
                         ELSE IF returned = "true" THEN write(rotated.files, log_line)
                         ELSE rotated.files
          /\ lf_last' = [log_line |-> log_line,
                         rotations |-> IF lf_handler.enabled THEN rotated.rotations ELSE 0,
                         returned |-> returned]
  /\ lf_sends' = lf_sends + 1
  /\ lf_before' = lf_files
  /\ UNCHANGED lf_handler

(***************************************************************************)
(* Claims about the LogFileNotifier                                        *)
(***************************************************************************)
\* the last send was made by an enabled handler and found the current file
\* above the configured maximum size
FoundAboveMax ==
  /\ lf_sends > 0
  /\ lf_handler.enabled
  /\ lf_before[0].exists
  /\ st_size(lf_before[0].lines) > lf_handler.max_size_mb

\* the current file after a send that rotated: fresh, holding the new line
\* alone if the write succeeded
FreshCurrent ==
  IF lf_last.returned = "true"
  THEN [exists |-> TRUE, lines |-> <<lf_last.log_line>>]
  ELSE NoFile

\* C23 as stated: a send that finds the current file above the maximum size
\* rotates exactly once before the write: the whole current file becomes
\* backup .1, each existing backup .i becomes .i+1, and the new line is
\* written to a fresh current file.
C23_RotationShiftsEveryBackup ==
  FoundAboveMax =>
    /\ lf_last.rotations = 1
    /\ lf_files[1] = lf_before[0]
    /\ \A i \in 1..(MaxBackup - 1) : lf_before[i].exists => lf_files[i + 1] = lf_before[i]
    /\ lf_files[0] = FreshCurrent

\* C23 amended: as above, but only the existing backups numbered below
\* keep_files become .i+1, each replacing the backup that was there; a
\* backup numbered keep_files or above is not renamed, so backup .keep_files
\* (backup .1 when keep_files is 1) is dropped.  Files are renamed whole, so
\* no line is split between files and the order within each file is kept.
C23_RotationShiftsBackupsBelowKeepFiles ==
  FoundAboveMax =>
    /\ lf_last.rotations = 1
    /\ lf_files[1] = lf_before[0]
    /\ \A i \in 1..(lf_handler.keep_files - 1) :
         lf_before[i].exists => lf_files[i + 1] = lf_before[i]
    /\ \A i \in 2..MaxBackup :
         i > lf_handler.keep_files => lf_files[i] = lf_before[i]
    /\ lf_files[0] = FreshCurrent

\* C23 witness: a send found the current file above the maximum size with
\* backup .1 in place and keep_files 2, rotated and wrote
C23_Witness ==
  /\ FoundAboveMax
  /\ lf_handler.keep_files = 2
  /\ lf_before[1].exists
  /\ lf_before[2].exists
  /\ lf_last.returned = "true"
  /\ lf_files[2] = lf_before[1]

\* the numbers of the backup files in the log directory
Backups == {i \in 1..MaxBackup : lf_files[i].exists}

\* every line of the newer file was written after every line of the older
NewerThan(newer, older) ==
  \A m \in 1..Len(newer.lines) : \A n \in 1..Len(older.lines) :
    newer.lines[m].id > older.lines[n].id

\* C31: after any sequence of log-file sends and rotations the number of
\* numbered backup files never exceeds keep_files, for every keep_files >= 0,
\* and backup .i always holds lines written more recently than those of
\* backup .i+1.
C31_BackupsWithinRetention ==
  /\ Cardinality(Backups) <= lf_handler.keep_files
  /\ \A i \in 1..(MaxBackup - 1) :
       (i \in Backups /\ (i + 1) \in Backups) => NewerThan(lf_files[i], lf_files[i + 1])

(***************************************************************************)
(* SecurityAlertEngine.run_continuous and the stop signal                  *)
(***************************************************************************)
\* run_continuous is called, or not
LoopInitFor(modes, intervals) ==
  /\ rc_pc \in modes
  /\ poll_interval \in intervals
  /\ rc_start_time = 0
  /\ rc_result = 0
  /\ rc_sleep_time = 0
  /\ rc_results = {}

\* self.config.get('settings', {}).get('poll_interval', 5)
default_poll_interval == 5

\* run_continuous of a configuration without a poll_interval setting
LoopInit(modes) == LoopInitFor(modes, {default_poll_interval})

\* the external stop signal: SIGINT raises KeyboardInterrupt in the main
\* thread wherever it is, in time.sleep or inside run_once.  No except clause
\* of run_once, process_logs or send_alert names it (they name Exception), so
\* it reaches the except KeyboardInterrupt of run_continuous, which logs and
\* returns; whatever run_once had begun stays as it was
KeyboardInterrupt ==
  /\ rc_pc = "running"
  /\ rc_pc' = "stopped"
  /\ UNCHANGED <<poll_interval, rc_start_time, rc_result, rc_sleep_time, rc_results>>

\* a step of the while loop: a step of the run_once it has called
Running(step) ==
  /\ rc_pc = "running"
  /\ step
  /\ UNCHANGED rc_vars

\* the poll intervals of the model's configurations: none, and longer than a
\* query takes
PollIntervals == {0, QueryMinutes + 1}

\* the mutated sleep time of a loop that does not cut it off at zero
sleep_time_signed(interval, elapsed) == interval - elapsed

\* sleep_time = max(0, poll_interval - elapsed)
sleep_time(interval, elapsed) ==
  IF interval - elapsed > 0 THEN interval - elapsed ELSE 0

\* the top of the while loop: start_time = time.time(), and run_once is
\* called; step is the first step of that run_once
LoopRunOnce(step) ==
  /\ rc_pc = "running"
  /\ step
  /\ rc_start_time' = wallclock
  /\ rc_pc' = "run_once"
  /\ UNCHANGED <<poll_interval, rc_result, rc_sleep_time, rc_results>>

\* a later step of the run_once the loop has called
InRunOnce(step) ==
  /\ rc_pc = "run_once"
  /\ step
  /\ UNCHANGED rc_vars

\* run_once has returned: result is looked at for the warning only, elapsed
\* is taken off the clock, and time.sleep(sleep_time) passes that time; the
\* loop is at its top again
LoopSleep ==
  /\ rc_pc = "run_once"
  /\ eng_pc = "returned"
  /\ LET elapsed == wallclock - rc_start_time
     IN /\ rc_sleep_time' = sleep_time(poll_interval, elapsed)
        /\ wallclock' = wallclock + rc_sleep_time'
  /\ rc_result' = eng_status
  /\ rc_results' = rc_results \cup {rc_result'}
  /\ rc_pc' = "running"
  /\ UNCHANGED <<poll_interval, rc_start_time>>
  /\ UNCHANGED <<max_errors, last_check_time, error_count, alert_count, eng_pc,
                 logs, log_index, end_time, alerts, alert_index, sent_alerts,
                 eng_status, eng_cycles, eng_before, eng_ready, eng_query,
                 eng_evaluated, eng_deduped, eng_handed>>

\* an exception has left run_once: except Exception logs it and raises it
\* again, and run_continuous is over
LoopRaised ==
  /\ rc_pc = "run_once"
  /\ eng_pc = "raised"
  /\ rc_pc' = "raised"
  /\ UNCHANGED <<poll_interval, rc_start_time, rc_result, rc_sleep_time, rc_results>>

(***************************************************************************)
(* Claims about run_continuous                                             *)
(***************************************************************************)
\* a cycle is in flight: run_once is evaluating records, deduplicating its
\* candidates or inside send_alert
InFlight == eng_pc \in {"evaluate", "alerts", "sending"}

\* C24: a stop signal that arrives while a cycle is in flight lets the cycle
\* finish: when the loop has shut down, no cycle is in flight, every
\* candidate of the last cycle has been through the deduplicator and every
\* survivor has been handed to the dispatcher.
C24_StopCompletesCycle ==
  rc_pc = "stopped" =>
    /\ ~InFlight
    /\ eng_pc = "returned" => Len(eng_deduped) = Len(alerts) /\ eng_handed = Survivors

\* the loop is at its top again after a sleep
JustSlept == rc_pc = "running" /\ rc_results # {}

\* the time the cycle before the last sleep took: the clock's reading when
\* the sleep began, less start_time
ElapsedBeforeSleep == (wallclock - rc_sleep_time) - rc_start_time

\* C32: in continuous mode a cycle that returns a non-zero status does not
\* end the loop: whenever run_once has returned, whatever its status, the
\* loop is still in its while loop, and it sleeps and comes to the top
\* again; and the sleep between cycles is max(0, poll_interval - elapsed),
\* never negative, and zero when the cycle took at least poll_interval.
C32_LoopContinuesAndSleepsTheRemainder ==
  /\ eng_pc = "returned" => rc_pc \in {"run_once", "running"}
  /\ JustSlept =>
       /\ rc_result = eng_status
       /\ rc_sleep_time >= 0
       /\ ElapsedBeforeSleep >= poll_interval => rc_sleep_time = 0
       /\ ElapsedBeforeSleep < poll_interval =>
            rc_sleep_time = poll_interval - ElapsedBeforeSleep

\* this cycle has moved the cursor
CursorAdvanced == eng_cycles > 0 /\ last_check_time # eng_before.last_check_time

\* the records this cycle has put through the pattern rules and the
\* behavioural analysis
Evaluated == { i \in 1..Len(eng_evaluated) : ~eng_evaluated[i].raised }

\* C38: whenever a cycle advances last_check_time past a window, every
\* record the log source holds for that window has been evaluated by the
\* pattern rules and the behavioural analyzer in that cycle; none is skipped
\* by the cursor moving past it, the window holding more records than the
\* query limit included.
C38_NoRecordSkipped ==
  CursorAdvanced => Cardinality(Evaluated) = eng_held

\* the queries before the j-th whose cycles moved the cursor
AdvancedBefore(j) == { i \in 1..(j - 1) : eng_windows[i].advanced }

\* the latest of them
LatestOf(earlier) == CHOOSE i \in earlier : \A k \in earlier : k <= i

\* every query window starts where the window of the most recent cycle that
\* moved the cursor ended
WindowsAbut ==
  \A j \in 1..Len(eng_windows) :
    AdvancedBefore(j) # {} =>
      eng_windows[j].start = eng_windows[LatestOf(AdvancedBefore(j))].end

\* C39: last_check_time never decreases, and the start of every query
\* window equals the end of the window of the most recent cycle that
\* advanced the cursor, so the windows of successive cursor-advancing cycles
\* neither overlap nor leave a gap.
C39_CursorMonotoneWindowsAbut ==
  []WindowsAbut /\ [][last_check_time' >= last_check_time]_vars

\* C39 witness: two cycles have each queried and moved the cursor, and the
\* second window began where the first ended
C39_Witness ==
  /\ Len(eng_windows) = 2
  /\ eng_windows[1].advanced
  /\ eng_windows[2].advanced
  /\ eng_windows[1].start < eng_windows[1].end
  /\ eng_windows[2].start = eng_windows[1].end
  /\ last_check_time = eng_windows[2].end

\* C40: each log record contributes at most once to its session's operation
\* history and scope-violation counter across any sequence of cycles,
\* cycles that fail partway through a batch and whose time range is queried
\* again on the next cycle included.
C40_RecordContributesOnce ==
  \A i \in DOMAIN eng_store : eng_store[i].times <= 1

\* number of delivered alerts of key k stamped at cutoff or later
DeliveredSince(k, cutoff) ==
  Cardinality({ i \in 1..Len(eng_delivered) :
                  /\ dedup_key(eng_delivered[i]) = k
                  /\ fromisoformat(eng_delivered[i].timestamp) >= cutoff })

\* no dispatch is under way: run_once is between two alerts, or has returned
BetweenAlerts == eng_pc \in {"alerts", "returned"}

\* C36: a dedup slot is consumed only by an alert that was actually
\* delivered: no key's history holds more entries than alerts of that key
\* were handed to the dispatcher and reported as sent, so that an alert whose
\* dispatch failed or raised does not count toward the budget; and whenever
\* an alert is suppressed, max_occurrences alerts of its key within the
\* window were each delivered.
C36_SlotsConsumedByDeliveredAlerts ==
  BetweenAlerts =>
    /\ \A k \in DOMAIN alert_history :
         Len(alert_history[k]) <= DeliveredSince(k, 0)
    /\ (dd_calls > 0 /\ ~dd_last.answer) =>
         DeliveredSince(dd_last.key, dd_last.alert.timestamp - window_minutes)
           >= max_occurrences

\* the error count has reached the ceiling: check_health answers false
Tripped == error_count >= max_errors

\* C33: the circuit breaker is recoverable: once the consecutive-error
\* counter has reached the configured ceiling, if the log source is
\* reachable on every cycle then the loop eventually runs a cycle that
\* queries and evaluates records again.
C33_BreakerRecovers ==
  ([]eng_ready) => (Tripped ~> (eng_pc = "evaluate"))

\* C32 witness: an earlier cycle returned 1 and was slept after, the next
\* was run, queried and returned 0 after longer than poll_interval, and the
\* sleep after it was 0
C32_Witness ==
  /\ JustSlept
  /\ 1 \in rc_results
  /\ rc_result = 0
  /\ eng_query = "ok"
  /\ ElapsedBeforeSleep > poll_interval
  /\ rc_sleep_time = 0

(***************************************************************************)
(* The alert_id of the alerts of both makers                               *)
(***************************************************************************)
\* bound: the analyze_session calls of one behaviour of the alert ids
MaxIdCalls == 4

\* of each alert of a list: what the alert_id is said to be derived from, and
\* the alert_id
Made(made) ==
  { [rule_name |-> made[i].rule_name, session_id |-> made[i].session_id,
     timestamp |-> made[i].raw_log.timestamp, alert_id |-> made[i].alert_id] :
      i \in DOMAIN made }

\* no alert made yet
IdsInit == ids_seen = {}

\* analyze_session on an out-of-scope record of the one session, at any
\* reading of the wall clock
AnalyzeIds ==
  /\ Analyze(FreqSessions, ScopeTimes, {TRUE}, MaxIdCalls)
  /\ ids_seen' = ids_seen \cup Made(an_last'.alerts)

\* the pattern rules on a record of the log source
EvaluateIds ==
  /\ Evaluate(EngineRecords)
  /\ ids_seen' = ids_seen \cup Made(rl_alerts')

\* C27: alert_id is a function of the alert's rule name, session id and
\* record timestamp: of all alerts made, by the pattern rules or by the
\* analyzer, any two that agree on the three have the same alert_id.
C27_AlertIdDeterministic ==
  \A a, b \in ids_seen :
    (a.rule_name = b.rule_name /\ a.session_id = b.session_id
     /\ a.timestamp = b.timestamp) => a.alert_id = b.alert_id

(***************************************************************************)
(* ConsoleNotifier: the severity threshold and the printing                *)
(***************************************************************************)
\* config.get('format', 'text')
Formats == {"text", "json"}

\* the console handlers of the model: enabled or not, every minimum severity,
\* either format
ConsoleHandlers ==
  [kind : {"console"}, enabled : BOOLEAN, min_severity : Severities, format : Formats]

\* the alerts sent to the console: every severity, with a timestamp that
\* parses or the malformed one a record can bring
ConsoleAlerts == [severity : Severities, timestamp : {Iso(0), BadTimestamp}]

\* what a send that has not happened leaves behind
NoPrint ==
  [alert |-> [severity |-> "LOW", timestamp |-> Iso(0)], printed |-> FALSE,
   returned |-> "true"]

\* ConsoleNotifier.__init__
ConsoleInit(handlers_configured) ==
  /\ cs_handler \in handlers_configured
  /\ cs_last = NoPrint

\* the try body of ConsoleNotifier.send raises before its first print: the
\* text format starts with datetime.fromisoformat(alert.timestamp).strftime,
\* the json format goes through json.dumps(..., default=str)
FormatRaises(handler, alert) ==
  handler.format = "text" /\ fromisoformat_raises(alert.timestamp)

\* ConsoleNotifier.send on a stdout that takes what is printed
ConsoleNotifierSend ==
  \E alert \in ConsoleAlerts :
    LET raises == FormatRaises(cs_handler, alert)
        world == [io |-> IF raises THEN "error" ELSE "ok", payload |-> "ok"]
    IN cs_last' = [alert |-> alert,
                   printed |-> should_notify(cs_handler, alert.severity) /\ ~raises,
                   returned |-> ConsoleSend(cs_handler, alert, world)]
       /\ UNCHANGED cs_handler

(***************************************************************************)
(* Claims about the ConsoleNotifier                                        *)
(***************************************************************************)
\* the order CRITICAL > HIGH > MEDIUM > LOW
AtOrAbove(severity, minimum) ==
  LET below == { <<"LOW", "MEDIUM">>, <<"LOW", "HIGH">>, <<"LOW", "CRITICAL">>,
                 <<"MEDIUM", "HIGH">>, <<"MEDIUM", "CRITICAL">>,
                 <<"HIGH", "CRITICAL">> }
  IN <<severity, minimum>> \notin below

\* a send has been made
ConsoleSent == cs_last # NoPrint

\* C30: the console handler prints an alert exactly when it is enabled and
\* the alert's severity is at or above the configured minimum; an alert
\* below the threshold is not printed.
C30_ConsolePrintsIffAtOrAboveMinimum ==
  ConsoleSent =>
    (cs_last.printed <=>
       (cs_handler.enabled
        /\ AtOrAbove(cs_last.alert.severity, cs_handler.min_severity)))

(***************************************************************************)
(* Specifications: one per component, each driving that component with     *)
(* every input of its input sets.                                          *)
(***************************************************************************)
\* the dispatcher of the other components' specifications: no handler configured
NoHandlers == { {} }

AllConfigs == SUBSET { Kinds[i] : i \in 1..Len(Kinds) }

\* the log-file handler of the other components' specifications: switched off
NoLogFile ==
  { [kind |-> "logfile", enabled |-> FALSE, max_size_mb |-> 100, keep_files |-> 5] }

\* the console handler of the other components' specifications: the default
NoConsole ==
  { [kind |-> "console", enabled |-> TRUE, min_severity |-> min_severity,
     format |-> "text"] }

\* the engine of the other components' specifications: never run
InitDedup ==
  /\ DedupInit(BOOLEAN)
  /\ AnalyzerInit
  /\ DispatcherInit(NoHandlers)
  /\ EngineInit
  /\ RulesInit
  /\ LogFileInit(NoLogFile)
  /\ LoopInit({"off"})
  /\ IdsInit
  /\ ConsoleInit(NoConsole)

NextDedup == ShouldAlert /\ UNCHANGED <<an_vars, nd_vars, eng_vars, rl_vars,
                                        lf_vars, rc_vars, id_vars, cs_vars, dl_vars>>

SpecDedup == InitDedup /\ [][NextDedup]_vars

\* the deduplicator, enabled, offered alerts whose key-field values hold the
\* separator
InitSeparator ==
  /\ DedupInitFor({TRUE}, SeparatorKeys)
  /\ AnalyzerInit
  /\ DispatcherInit(NoHandlers)
  /\ EngineInit
  /\ RulesInit
  /\ LogFileInit(NoLogFile)
  /\ LoopInit({"off"})
  /\ IdsInit
  /\ ConsoleInit(NoConsole)

NextSeparator ==
  ShouldAlertOf(SeparatorAlerts) /\ UNCHANGED <<an_vars, nd_vars, eng_vars, rl_vars,
                                                lf_vars, rc_vars, id_vars, cs_vars, dl_vars>>

SpecSeparator == InitSeparator /\ [][NextSeparator]_vars

InitAnalyzer ==
  /\ DedupInit({TRUE})
  /\ AnalyzerInit
  /\ DispatcherInit(NoHandlers)
  /\ EngineInit
  /\ RulesInit
  /\ LogFileInit(NoLogFile)
  /\ LoopInit({"off"})
  /\ IdsInit
  /\ ConsoleInit(NoConsole)

\* a single busy session, none of whose records is out of scope
NextFreq ==
  /\ Analyze(FreqSessions, FreqTimes, {FALSE}, MaxFreqCalls)
  /\ UNCHANGED <<dd_vars, nd_vars, eng_vars, rl_vars, lf_vars, rc_vars, id_vars, cs_vars, dl_vars>>

SpecFreq == InitAnalyzer /\ [][NextFreq]_vars

\* two sessions, records in and out of scope
NextScope ==
  /\ Analyze(Sessions, ScopeTimes, BOOLEAN, MaxScopeCalls)
  /\ UNCHANGED <<dd_vars, nd_vars, eng_vars, rl_vars, lf_vars, rc_vars, id_vars, cs_vars, dl_vars>>

SpecScope == InitAnalyzer /\ [][NextScope]_vars

InitDispatch ==
  /\ DedupInit({TRUE})
  /\ AnalyzerInit
  /\ DispatcherInit(AllConfigs)
  /\ EngineInit
  /\ RulesInit
  /\ LogFileInit(NoLogFile)
  /\ LoopInit({"off"})
  /\ IdsInit
  /\ ConsoleInit(NoConsole)

NextDispatch ==
  \/ SendAlertBegin /\ UNCHANGED <<dd_vars, an_vars, eng_vars, rl_vars,
                                   lf_vars, rc_vars, id_vars, cs_vars, dl_vars>>
  \/ SendAlertHandler /\ UNCHANGED <<dd_vars, an_vars, eng_vars, rl_vars,
                                     lf_vars, rc_vars, id_vars, cs_vars, dl_vars>>
  \/ SendAlertEnd /\ UNCHANGED <<dd_vars, an_vars, eng_vars, rl_vars,
                                 lf_vars, rc_vars, id_vars, cs_vars, dl_vars>>

SpecDispatch == InitDispatch /\ [][NextDispatch]_vars

\* the configurations of the channels that can pass an alert over: any of
\* console, email and webhook, each enabled or not, recipients named or not
EmissionConfigs == SUBSET {"console", "email", "webhook"}

InitEmission ==
  /\ DedupInit({TRUE})
  /\ AnalyzerInit
  /\ DispatcherInitFor(EmissionConfigs, BOOLEAN)
  /\ EngineInit
  /\ RulesInit
  /\ LogFileInit(NoLogFile)
  /\ LoopInit({"off"})
  /\ IdsInit
  /\ ConsoleInit(NoConsole)

SpecEmission == InitEmission /\ [][NextDispatch]_vars

\* the engine with deduplication enabled and the console handler configured
\* and switched on
EngineConfigs == { {"console"} }

InitEngine ==
  /\ DedupInitFor({TRUE}, EngineKeys)
  /\ AnalyzerInitFor(EngineSessions)
  /\ DispatcherInit(EngineConfigs)
  /\ \A i \in DOMAIN handlers : handlers[i].enabled
  /\ EngineInitFor(Ceilings)
  /\ RulesInit
  /\ LogFileInit(NoLogFile) /\ LoopInit({"off"}) /\ IdsInit /\ ConsoleInit(NoConsole)

NextEngine ==
  \/ RunOnceUnhealthy /\ UNCHANGED <<rl_vars, lf_vars, rc_vars, id_vars, cs_vars, dl_vars>>
  \/ RunOnceQuery /\ UNCHANGED <<rl_vars, lf_vars, rc_vars, id_vars, cs_vars, dl_vars>>
  \/ ProcessLogsRecord /\ UNCHANGED <<rl_vars, lf_vars, rc_vars, id_vars, cs_vars, dl_vars>>
  \/ ProcessLogsEnd /\ UNCHANGED <<rl_vars, lf_vars, rc_vars, id_vars, cs_vars, dl_vars>>
  \/ RunOnceAlert /\ UNCHANGED <<rl_vars, lf_vars, rc_vars, id_vars, cs_vars, dl_vars>>
  \/ SendAlertHandler /\ UNCHANGED <<dd_vars, an_vars, eng_vars, rl_vars,
                                     lf_vars, rc_vars, id_vars, cs_vars, dl_vars>>
  \/ SendAlertEnd /\ UNCHANGED <<dd_vars, an_vars, eng_vars, rl_vars,
                                 lf_vars, rc_vars, id_vars, cs_vars, dl_vars>>
  \/ RunOnceSent /\ UNCHANGED <<rl_vars, lf_vars, rc_vars, id_vars, cs_vars, dl_vars>>
  \/ RunOnceReturn /\ UNCHANGED <<rl_vars, lf_vars, rc_vars, id_vars, cs_vars, dl_vars>>

SpecEngine == InitEngine /\ [][NextEngine]_vars

\* the engine's cycles with the delivered alerts kept
NextDelivery ==
  \/ RunOnceUnhealthy /\ UNCHANGED <<rl_vars, lf_vars, rc_vars, id_vars, cs_vars, dl_vars>>
  \/ RunOnceQuery /\ UNCHANGED <<rl_vars, lf_vars, rc_vars, id_vars, cs_vars, dl_vars>>
  \/ ProcessLogsRecord /\ UNCHANGED <<rl_vars, lf_vars, rc_vars, id_vars, cs_vars, dl_vars>>
  \/ ProcessLogsEnd /\ UNCHANGED <<rl_vars, lf_vars, rc_vars, id_vars, cs_vars, dl_vars>>
  \/ RunOnceAlert /\ UNCHANGED <<rl_vars, lf_vars, rc_vars, id_vars, cs_vars, dl_vars>>
  \/ SendAlertHandler /\ UNCHANGED <<dd_vars, an_vars, eng_vars, rl_vars,
                                     lf_vars, rc_vars, id_vars, cs_vars, dl_vars>>
  \/ SendAlertEnd /\ UNCHANGED <<dd_vars, an_vars, eng_vars, rl_vars,
                                 lf_vars, rc_vars, id_vars, cs_vars, dl_vars>>
  \/ RunOnceSentNoted /\ UNCHANGED <<rl_vars, lf_vars, rc_vars, id_vars, cs_vars>>
  \/ RunOnceReturn /\ UNCHANGED <<rl_vars, lf_vars, rc_vars, id_vars, cs_vars, dl_vars>>

SpecDelivery == InitEngine /\ [][NextDelivery]_vars

\* the engine's cycles against a log source that holds records for each
\* window, more than the query limit at times
NextWindow ==
  \/ RunOnceUnhealthy /\ UNCHANGED <<rl_vars, lf_vars, rc_vars, id_vars, cs_vars, dl_vars>>
  \/ RunOnceQueryHeld /\ UNCHANGED <<rl_vars, lf_vars, rc_vars, id_vars, cs_vars>>
  \/ ProcessLogsRecord /\ UNCHANGED <<rl_vars, lf_vars, rc_vars, id_vars, cs_vars, dl_vars>>
  \/ ProcessLogsEnd /\ UNCHANGED <<rl_vars, lf_vars, rc_vars, id_vars, cs_vars, dl_vars>>
  \/ RunOnceAlert /\ UNCHANGED <<rl_vars, lf_vars, rc_vars, id_vars, cs_vars, dl_vars>>
  \/ SendAlertHandler /\ UNCHANGED <<dd_vars, an_vars, eng_vars, rl_vars,
                                     lf_vars, rc_vars, id_vars, cs_vars, dl_vars>>
  \/ SendAlertEnd /\ UNCHANGED <<dd_vars, an_vars, eng_vars, rl_vars,
                                 lf_vars, rc_vars, id_vars, cs_vars, dl_vars>>
  \/ RunOnceSent /\ UNCHANGED <<rl_vars, lf_vars, rc_vars, id_vars, cs_vars, dl_vars>>
  \/ RunOnceReturn /\ UNCHANGED <<rl_vars, lf_vars, rc_vars, id_vars, cs_vars, dl_vars>>

SpecWindow == InitEngine /\ [][NextWindow]_vars

\* the engine's cycles with the windows of its queries kept
InitCursor ==
  /\ DedupInitFor({TRUE}, EngineKeys)
  /\ AnalyzerInitFor(EngineSessions)
  /\ DispatcherInit(EngineConfigs)
  /\ \A i \in DOMAIN handlers : handlers[i].enabled
  /\ EngineInit
  /\ RulesInit
  /\ LogFileInit(NoLogFile)
  /\ LoopInit({"off"})
  /\ IdsInit
  /\ ConsoleInit(NoConsole)

NextCursor ==
  \/ RunOnceUnhealthy /\ UNCHANGED <<rl_vars, lf_vars, rc_vars, id_vars, cs_vars, dl_vars>>
  \/ RunOnceQueryWindow /\ UNCHANGED <<rl_vars, lf_vars, rc_vars, id_vars, cs_vars>>
  \/ ProcessLogsRecord /\ UNCHANGED <<rl_vars, lf_vars, rc_vars, id_vars, cs_vars, dl_vars>>
  \/ ProcessLogsEndWindow /\ UNCHANGED <<rl_vars, lf_vars, rc_vars, id_vars, cs_vars>>
  \/ RunOnceAlert /\ UNCHANGED <<rl_vars, lf_vars, rc_vars, id_vars, cs_vars, dl_vars>>
  \/ SendAlertHandler /\ UNCHANGED <<dd_vars, an_vars, eng_vars, rl_vars,
                                     lf_vars, rc_vars, id_vars, cs_vars, dl_vars>>
  \/ SendAlertEnd /\ UNCHANGED <<dd_vars, an_vars, eng_vars, rl_vars,
                                 lf_vars, rc_vars, id_vars, cs_vars, dl_vars>>
  \/ RunOnceSent /\ UNCHANGED <<rl_vars, lf_vars, rc_vars, id_vars, cs_vars, dl_vars>>
  \/ RunOnceReturn /\ UNCHANGED <<rl_vars, lf_vars, rc_vars, id_vars, cs_vars, dl_vars>>

SpecCursor == InitCursor /\ [][NextCursor]_vars

\* the engine's cycles against a log source that keeps its records
NextStore ==
  \/ RunOnceUnhealthy /\ UNCHANGED <<rl_vars, lf_vars, rc_vars, id_vars, cs_vars, dl_vars>>
  \/ RunOnceQueryStore /\ UNCHANGED <<rl_vars, lf_vars, rc_vars, id_vars, cs_vars>>
  \/ ProcessLogsRecordStore /\ UNCHANGED <<rl_vars, lf_vars, rc_vars, id_vars, cs_vars>>
  \/ ProcessLogsEndStore /\ UNCHANGED <<rl_vars, lf_vars, rc_vars, id_vars, cs_vars>>
  \/ RunOnceAlert /\ UNCHANGED <<rl_vars, lf_vars, rc_vars, id_vars, cs_vars, dl_vars>>
  \/ SendAlertHandler /\ UNCHANGED <<dd_vars, an_vars, eng_vars, rl_vars,
                                     lf_vars, rc_vars, id_vars, cs_vars, dl_vars>>
  \/ SendAlertEnd /\ UNCHANGED <<dd_vars, an_vars, eng_vars, rl_vars,
                                 lf_vars, rc_vars, id_vars, cs_vars, dl_vars>>
  \/ RunOnceSent /\ UNCHANGED <<rl_vars, lf_vars, rc_vars, id_vars, cs_vars, dl_vars>>
  \/ RunOnceReturn /\ UNCHANGED <<rl_vars, lf_vars, rc_vars, id_vars, cs_vars, dl_vars>>

SpecStore == InitCursor /\ [][NextStore]_vars

\* the engine's construction over every rules config, then evaluations
InitRules ==
  /\ DedupInit({TRUE})
  /\ AnalyzerInit
  /\ DispatcherInit(NoHandlers)
  /\ EngineInit
  /\ RulesInitFor(LoadConfigs)
  /\ LogFileInit(NoLogFile) /\ LoopInit({"off"}) /\ IdsInit /\ ConsoleInit(NoConsole)

NextRules ==
  \/ LoadRules /\ UNCHANGED <<dd_vars, an_vars, nd_vars, eng_vars,
                              lf_vars, rc_vars, id_vars, cs_vars, dl_vars>>
  \/ Evaluate(EngineRecords) /\ UNCHANGED <<dd_vars, an_vars, nd_vars, eng_vars,
                                            lf_vars, rc_vars, id_vars, cs_vars, dl_vars>>

SpecRules == InitRules /\ [][NextRules]_vars

\* the construction of an engine with one rule, over every list of context
\* fields, then evaluations of records of every nesting
InitContext ==
  /\ DedupInit({TRUE})
  /\ AnalyzerInit
  /\ DispatcherInit(NoHandlers)
  /\ EngineInit
  /\ RulesInitFor(ContextConfigs)
  /\ LogFileInit(NoLogFile) /\ LoopInit({"off"}) /\ IdsInit /\ ConsoleInit(NoConsole)

NextContext ==
  \/ LoadRules /\ UNCHANGED <<dd_vars, an_vars, nd_vars, eng_vars,
                              lf_vars, rc_vars, id_vars, cs_vars, dl_vars>>
  \/ Evaluate(ContextRecords) /\ UNCHANGED <<dd_vars, an_vars, nd_vars, eng_vars,
                                             lf_vars, rc_vars, id_vars, cs_vars, dl_vars>>

SpecContext == InitContext /\ [][NextContext]_vars

\* sends to the log file under every rotation config
InitLogFile ==
  /\ DedupInit({TRUE})
  /\ AnalyzerInit
  /\ DispatcherInit(NoHandlers)
  /\ EngineInit
  /\ RulesInit
  /\ LogFileInit(LogFileHandlers)
  /\ LoopInit({"off"}) /\ IdsInit /\ ConsoleInit(NoConsole)

NextLogFile ==
  LogFileNotifierSend /\ UNCHANGED <<dd_vars, an_vars, nd_vars, eng_vars,
                                     rl_vars, rc_vars, id_vars, cs_vars, dl_vars>>

SpecLogFile == InitLogFile /\ [][NextLogFile]_vars

\* the engine in continuous mode, with a stop signal that may arrive at any
\* moment
InitLoop ==
  /\ DedupInitFor({TRUE}, EngineKeys)
  /\ AnalyzerInitFor(EngineSessions)
  /\ DispatcherInit(EngineConfigs)
  /\ \A i \in DOMAIN handlers : handlers[i].enabled
  /\ EngineInit
  /\ RulesInit
  /\ LogFileInit(NoLogFile)
  /\ LoopInit({"running"})
  /\ IdsInit /\ ConsoleInit(NoConsole)

NextLoop ==
  \/ Running(RunOnceUnhealthy /\ UNCHANGED <<rl_vars, lf_vars, id_vars, cs_vars, dl_vars>>)
  \/ Running(RunOnceQuery /\ UNCHANGED <<rl_vars, lf_vars, id_vars, cs_vars, dl_vars>>)
  \/ Running(ProcessLogsRecord /\ UNCHANGED <<rl_vars, lf_vars, id_vars, cs_vars, dl_vars>>)
  \/ Running(ProcessLogsEnd /\ UNCHANGED <<rl_vars, lf_vars, id_vars, cs_vars, dl_vars>>)
  \/ Running(RunOnceAlert /\ UNCHANGED <<rl_vars, lf_vars, id_vars, cs_vars, dl_vars>>)
  \/ Running(SendAlertHandler /\ UNCHANGED <<dd_vars, an_vars, eng_vars, rl_vars,
                                             lf_vars, id_vars, cs_vars, dl_vars>>)
  \/ Running(SendAlertEnd /\ UNCHANGED <<dd_vars, an_vars, eng_vars, rl_vars,
                                         lf_vars, id_vars, cs_vars, dl_vars>>)
  \/ Running(RunOnceSent /\ UNCHANGED <<rl_vars, lf_vars, id_vars, cs_vars, dl_vars>>)
  \/ Running(RunOnceReturn /\ UNCHANGED <<rl_vars, lf_vars, id_vars, cs_vars, dl_vars>>)
  \/ KeyboardInterrupt /\ UNCHANGED <<dd_vars, an_vars, nd_vars, eng_vars,
                                      rl_vars, lf_vars, id_vars, cs_vars, dl_vars>>

SpecLoop == InitLoop /\ [][NextLoop]_vars

\* run_continuous left to run, for every poll interval
InitContinuous ==
  /\ DedupInitFor({TRUE}, EngineKeys)
  /\ AnalyzerInitFor(EngineSessions)
  /\ DispatcherInit(EngineConfigs)
  /\ \A i \in DOMAIN handlers : handlers[i].enabled
  /\ EngineInit
  /\ RulesInit
  /\ LogFileInit(NoLogFile)
  /\ LoopInitFor({"running"}, PollIntervals)
  /\ IdsInit
  /\ ConsoleInit(NoConsole)

NextContinuous ==
  \/ LoopRunOnce(RunOnceUnhealthy) /\ UNCHANGED <<rl_vars, lf_vars, id_vars, cs_vars, dl_vars>>
  \/ LoopRunOnce(RunOnceQuery) /\ UNCHANGED <<rl_vars, lf_vars, id_vars, cs_vars, dl_vars>>
  \/ InRunOnce(ProcessLogsRecord) /\ UNCHANGED <<rl_vars, lf_vars, id_vars, cs_vars, dl_vars>>
  \/ InRunOnce(ProcessLogsEnd) /\ UNCHANGED <<rl_vars, lf_vars, id_vars, cs_vars, dl_vars>>
  \/ InRunOnce(RunOnceAlert) /\ UNCHANGED <<rl_vars, lf_vars, id_vars, cs_vars, dl_vars>>
  \/ InRunOnce(SendAlertHandler) /\ UNCHANGED <<dd_vars, an_vars, eng_vars, rl_vars,
                                                lf_vars, id_vars, cs_vars, dl_vars>>
  \/ InRunOnce(SendAlertEnd) /\ UNCHANGED <<dd_vars, an_vars, eng_vars, rl_vars,
                                            lf_vars, id_vars, cs_vars, dl_vars>>
  \/ InRunOnce(RunOnceSent) /\ UNCHANGED <<rl_vars, lf_vars, id_vars, cs_vars, dl_vars>>
  \/ InRunOnce(RunOnceReturn) /\ UNCHANGED <<rl_vars, lf_vars, id_vars, cs_vars, dl_vars>>
  \/ LoopSleep /\ UNCHANGED <<dd_vars, an_vars, nd_vars, rl_vars,
                               lf_vars, id_vars, cs_vars, dl_vars>>
  \/ LoopRaised /\ UNCHANGED <<dd_vars, an_vars, nd_vars, eng_vars,
                                rl_vars, lf_vars, id_vars, cs_vars, dl_vars>>

SpecContinuous == InitContinuous /\ [][NextContinuous]_vars

\* run_continuous left to run for ever, polling without a pause, with a
\* ceiling low enough for the error count to reach it
InitRecover ==
  /\ DedupInitFor({TRUE}, EngineKeys)
  /\ AnalyzerInitFor(EngineSessions)
  /\ DispatcherInit(EngineConfigs)
  /\ \A i \in DOMAIN handlers : handlers[i].enabled
  /\ EngineInitFor(Ceilings)
  /\ RulesInit
  /\ LogFileInit(NoLogFile)
  /\ LoopInitFor({"running"}, {0})
  /\ IdsInit
  /\ ConsoleInit(NoConsole)

NextRecover ==
  \/ NextContinuous
  \/ LoopRunOnce(RunOnceUnhealthyAgain) /\ UNCHANGED <<rl_vars, lf_vars, id_vars, cs_vars, dl_vars>>

\* the loop never pauses for good: while a step of it is possible, one is taken
SpecRecover == InitRecover /\ [][NextRecover]_vars /\ WF_vars(NextRecover)

\* the dispatcher with an email handler among its handlers, whose server
\* may hang; the loop takes its next step whenever it has one
HangConfigs == { {"email"} \cup others : others \in SUBSET {"console", "webhook", "grafana"} }

InitHang ==
  /\ DedupInit({TRUE})
  /\ AnalyzerInit
  /\ DispatcherInit(HangConfigs)
  /\ EngineInit
  /\ RulesInit
  /\ LogFileInit(NoLogFile)
  /\ LoopInit({"off"}) /\ IdsInit /\ ConsoleInit(NoConsole)

NextHang ==
  \/ SendAlertBegin /\ UNCHANGED <<dd_vars, an_vars, eng_vars, rl_vars,
                                   lf_vars, rc_vars, id_vars, cs_vars, dl_vars>>
  \/ SendAlertHandler /\ UNCHANGED <<dd_vars, an_vars, eng_vars, rl_vars,
                                     lf_vars, rc_vars, id_vars, cs_vars, dl_vars>>
  \/ SendAlertHangs /\ UNCHANGED <<dd_vars, an_vars, eng_vars, rl_vars,
                                   lf_vars, rc_vars, id_vars, cs_vars, dl_vars>>
  \/ SendAlertEnd /\ UNCHANGED <<dd_vars, an_vars, eng_vars, rl_vars,
                                 lf_vars, rc_vars, id_vars, cs_vars, dl_vars>>

SpecHang == InitHang /\ [][NextHang]_vars /\ WF_vars(NextHang)

\* alerts made by the pattern rules and by the analyzer, in any order
InitIds ==
  /\ DedupInit({TRUE})
  /\ AnalyzerInit
  /\ DispatcherInit(NoHandlers)
  /\ EngineInit
  /\ RulesInit
  /\ LogFileInit(NoLogFile)
  /\ LoopInit({"off"})
  /\ IdsInit /\ ConsoleInit(NoConsole)

NextIds ==
  \/ AnalyzeIds /\ UNCHANGED <<dd_vars, nd_vars, eng_vars, rl_vars,
                               lf_vars, rc_vars, cs_vars, dl_vars>>
  \/ EvaluateIds /\ UNCHANGED <<dd_vars, an_vars, nd_vars, eng_vars,
                                lf_vars, rc_vars, cs_vars, dl_vars>>

SpecIds == InitIds /\ [][NextIds]_vars

\* sends to the console under every console config
InitConsole ==
  /\ DedupInit({TRUE})
  /\ AnalyzerInit
  /\ DispatcherInit(NoHandlers)
  /\ EngineInit
  /\ RulesInit
  /\ LogFileInit(NoLogFile)
  /\ LoopInit({"off"})
  /\ IdsInit
  /\ ConsoleInit(ConsoleHandlers)

NextConsole ==
  ConsoleNotifierSend
  /\ UNCHANGED <<dd_vars, an_vars, nd_vars, eng_vars, rl_vars, lf_vars, rc_vars, id_vars, dl_vars>>

SpecConsole == InitConsole /\ [][NextConsole]_vars

====
